---- MODULE Spec2Model ----
(***************************************************************************)
(* Model of notnil/canbus: the CANopen SDO client (canopen.SDOClient) on   *)
(* top of the frame multiplexer (canbus.Mux).  Frames are records with the *)
(* fields of canbus.Frame that the SDO path reads (ID, Len, Data); Data is *)
(* the 8-byte array, so Go's f.Data[i] is Data[i+1] here.                  *)
(***************************************************************************)
EXTENDS Integers, Sequences, FiniteSets, TLC

\* ------------------------------------------------------------------ bounds

\* Longest payload handed to Download (15 bytes = segments of 7, 7 and 1).
MaxLen == 15
\* Number of frames the Mux reader receives from the Bus in one run.
MaxRecv == 4
\* The same, when two goroutines share the client.
MaxRecvConc == 2

\* ------------------------------------------------------- bytes and integers

Byte(n) == n % 256

\* binary.LittleEndian.PutUint16 / Uint16
PutUint16(v) == <<v % 256, (v \div 256) % 256>>
Uint16(b0, b1) == b0 + 256 * b1

\* A 32-bit (or wider) integer as hi * 65536 + lo with lo in 0..65535, so
\* that values of 2^31 and above stay within the model checker's integers.
Wide(n) == [hi |-> n \div 65536, lo |-> n % 65536]
WideNonNeg(w) == w.hi >= 0

\* binary.LittleEndian.PutUint32 / Uint32
PutUint32(w) == <<w.lo % 256, (w.lo \div 256) % 256, w.hi % 256, (w.hi \div 256) % 256>>
Uint32(b0, b1, b2, b3) == [hi |-> b2 + 256 * b3, lo |-> b0 + 256 * b1]

\* int(uint32): Go's int is 32 or 64 bits wide depending on the build, so a
\* value above MaxInt32 converts to itself (64-bit) or wraps negative (32-bit).
IntOfUint32(w) == IF w.hi < 32768 THEN {w} ELSE {w, [hi |-> w.hi - 65536, lo |-> w.lo]}

Min(a, b) == IF a < b THEN a ELSE b

\* ------------------------------------------------------------- COB-ID codec

FC_SYNC == 128
FC_TIME == 256
FC_TPDO1 == 384
FC_RPDO1 == 512
FC_TPDO2 == 640
FC_RPDO2 == 768
FC_TPDO3 == 896
FC_RPDO3 == 1024
FC_TPDO4 == 1152
FC_RPDO4 == 1280
FC_SDO_TX == 1408
FC_SDO_RX == 1536
FC_NMT == 0
FC_NMT_ERRCTRL == 1792
FC_EMCY == 128

\* COBID that takes SYNC, and with it EMCY, for a fixed identifier.
COBIDFixedSync(fc, node) ==
    IF fc = FC_NMT \/ fc = FC_TIME \/ fc = FC_SYNC THEN fc ELSE (fc + node) % 65536

\* COBID(fc, node): uint32(uint16(fc) + uint16(node)), fixed for NMT and TIME.
COBID(fc, node) ==
    IF fc = FC_NMT \/ fc = FC_TIME THEN fc ELSE (fc + node) % 65536

\* ParseCOBID(id) as [ok, fc, node].
ParseCOBID(id) ==
    IF id > 2047 THEN [ok |-> FALSE, fc |-> 0, node |-> 0]
    ELSE IF id = FC_NMT THEN [ok |-> TRUE, fc |-> FC_NMT, node |-> 0]
    ELSE IF id = FC_SYNC THEN [ok |-> TRUE, fc |-> FC_SYNC, node |-> 0]
    ELSE IF id = FC_TIME THEN [ok |-> TRUE, fc |-> FC_TIME, node |-> 0]
    ELSE IF id >= 128 /\ id <= 255 THEN [ok |-> TRUE, fc |-> FC_EMCY, node |-> id - 128]
    ELSE IF id >= 384 /\ id <= 511 THEN [ok |-> TRUE, fc |-> FC_TPDO1, node |-> id - 384]
    ELSE IF id >= 512 /\ id <= 639 THEN [ok |-> TRUE, fc |-> FC_RPDO1, node |-> id - 512]
    ELSE IF id >= 640 /\ id <= 767 THEN [ok |-> TRUE, fc |-> FC_TPDO2, node |-> id - 640]
    ELSE IF id >= 768 /\ id <= 895 THEN [ok |-> TRUE, fc |-> FC_RPDO2, node |-> id - 768]
    ELSE IF id >= 896 /\ id <= 1023 THEN [ok |-> TRUE, fc |-> FC_TPDO3, node |-> id - 896]
    ELSE IF id >= 1024 /\ id <= 1151 THEN [ok |-> TRUE, fc |-> FC_RPDO3, node |-> id - 1024]
    ELSE IF id >= 1152 /\ id <= 1279 THEN [ok |-> TRUE, fc |-> FC_TPDO4, node |-> id - 1152]
    ELSE IF id >= 1280 /\ id <= 1407 THEN [ok |-> TRUE, fc |-> FC_RPDO4, node |-> id - 1280]
    ELSE IF id >= 1408 /\ id <= 1535 THEN [ok |-> TRUE, fc |-> FC_SDO_TX, node |-> id - 1408]
    ELSE IF id >= 1536 /\ id <= 1663 THEN [ok |-> TRUE, fc |-> FC_SDO_RX, node |-> id - 1536]
    ELSE IF id >= 1792 /\ id <= 1919 THEN [ok |-> TRUE, fc |-> FC_NMT_ERRCTRL, node |-> id - 1792]
    ELSE [ok |-> FALSE, fc |-> 0, node |-> 0]

\* NodeID.Validate
NodeValid(n) == n >= 1 /\ n <= 127

\* ------------------------------------------------------------------ frames

\* canbus.Frame{}: the zero frame.
ZeroData == <<0, 0, 0, 0, 0, 0, 0, 0>>
ZeroFrame == [ID |-> 0, Len |-> 0, Data |-> ZeroData]

\* Go's f.Data[i], i in 0..7.
D(f, i) == f.Data[i + 1]

\* copy(f.Data[at:at+len(p)], p) into the 8-byte array d.
CopyInto(d, at, p) ==
    [i \in 1..8 |-> IF i - 1 >= at /\ i - 1 < at + Len(p) THEN p[i - at] ELSE d[i]]

\* SDO command specifiers (CCS/SCS) per CiA 301.
sdoCCSDownloadInitiate == 1
sdoCCSUploadInitiate == 2
sdoSCSDownloadInitiate == 3
sdoSCSUploadInitiate == 2
sdoCCSDownloadSegment == 0
sdoSCSDownloadSegment == 1
sdoCCSUploadSegment == 3
sdoSCSUploadSegment == 0
sdoCCSAbort == 4
sdoSCSAbort == 4

\* sdoCmd: the command specifier, bits 7..5 of byte 0.
sdoCmd(f) == (D(f, 0) \div 32) % 8
\* bit 4 of byte 0: the toggle bit of a segment frame.
ToggleOf(f) == (D(f, 0) \div 16) % 2
\* index (bytes 1..2, little-endian) and subindex (byte 3) of an initiate frame.
IndexOf(f) == Uint16(D(f, 1), D(f, 2))
SubindexOf(f) == D(f, 3)

\* --------------------------------------------------------- request builders

ExpeditedModeSpec == "ExpeditedModeSpec"
ExpeditedModeClassic == "ExpeditedModeClassic"

\* A builder's (Frame, error) result.
Built(f) == [ok |-> TRUE, f |-> f]
BuildError == [ok |-> FALSE, f |-> ZeroFrame]

\* bytes 1..3 of an initiate frame: index little-endian, subindex.
InitiateData(cmd, index, subindex, tail) ==
    <<cmd>> \o PutUint16(index) \o <<Byte(subindex)>> \o tail

\* sdoExpeditedDownload: CCS=1, e=1, s=1, n = (4 - len) & 3.
sdoExpeditedDownload(target, index, subindex, data) ==
    IF ~NodeValid(target) \/ Len(data) > 4 THEN BuildError
    ELSE LET n == Byte(4 - Len(data))
             cmd == sdoCCSDownloadInitiate * 32 + 8 + 4 + (n % 4)
         IN Built([ID |-> COBID(FC_SDO_RX, target), Len |-> 8,
                   Data |-> CopyInto(InitiateData(cmd, index, subindex, <<0, 0, 0, 0>>), 4, data)])

\* A faulty legacy encoding that leaves n in bits 1..0.
sdoExpeditedDownloadClassicLowBits(target, index, subindex, data) ==
    IF ~NodeValid(target) \/ Len(data) = 0 \/ Len(data) > 4 THEN BuildError
    ELSE LET cmd == Byte(35 + (4 - Len(data)))
         IN Built([ID |-> COBID(FC_SDO_RX, target), Len |-> 8,
                   Data |-> CopyInto(InitiateData(cmd, index, subindex, <<0, 0, 0, 0>>), 4, data)])

\* sdoExpeditedDownloadClassic: command byte 0x23 + ((4 - len) << 2).
sdoExpeditedDownloadClassic(target, index, subindex, data) ==
    IF ~NodeValid(target) \/ Len(data) = 0 \/ Len(data) > 4 THEN BuildError
    ELSE LET cmd == Byte(35 + (4 - Len(data)) * 4)
         IN Built([ID |-> COBID(FC_SDO_RX, target), Len |-> 8,
                   Data |-> CopyInto(InitiateData(cmd, index, subindex, <<0, 0, 0, 0>>), 4, data)])

\* sdoExpeditedUploadRequest: CCS=2, index/subindex, rest zero.
sdoExpeditedUploadRequest(target, index, subindex) ==
    IF ~NodeValid(target) THEN BuildError
    ELSE Built([ID |-> COBID(FC_SDO_RX, target), Len |-> 8,
                Data |-> InitiateData(sdoCCSUploadInitiate * 32, index, subindex, <<0, 0, 0, 0>>)])

\* buildSDODownloadInitiateSegmented: CCS=1, e=0, s=1, bytes 4..7 = total.
buildSDODownloadInitiateSegmented(node, index, subindex, total) ==
    [ID |-> COBID(FC_SDO_RX, node), Len |-> 8,
     Data |-> InitiateData(sdoCCSDownloadInitiate * 32 + 4, index, subindex, PutUint32(total))]

\* A faulty segment builder that never marks the last segment (c and n stay 0).
buildSDODownloadSegmentNoLast(node, payload, toggle, last) ==
    LET t == IF toggle % 2 = 1 THEN 16 ELSE 0
        cmd == sdoCCSDownloadSegment * 32 + t
    IN [ID |-> COBID(FC_SDO_RX, node), Len |-> 8,
        Data |-> CopyInto(<<cmd, 0, 0, 0, 0, 0, 0, 0>>, 1, payload)]

\* buildSDODownloadSegment: CCS=0, toggle in bit 4; on the last segment c=1
\* and n = 7 - len(payload) in bits 1..3; payload from byte 1.
buildSDODownloadSegment(node, payload, toggle, last) ==
    LET t == IF toggle % 2 = 1 THEN 16 ELSE 0
        n == Byte(7 - Len(payload))
        c == IF last THEN 1 + (n % 8) * 2 ELSE 0
        cmd == sdoCCSDownloadSegment * 32 + t + c
    IN [ID |-> COBID(FC_SDO_RX, node), Len |-> 8,
        Data |-> CopyInto(<<cmd, 0, 0, 0, 0, 0, 0, 0>>, 1, payload)]

\* The upload-segment request built inline by Upload: CCS=3, toggle in bit 4.
UploadSegmentRequest(node, toggle) ==
    [ID |-> COBID(FC_SDO_RX, node), Len |-> 8,
     Data |-> <<sdoCCSUploadSegment * 32 + (IF toggle % 2 = 1 THEN 16 ELSE 0), 0, 0, 0, 0, 0, 0, 0>>]

\* --------------------------------------------------------- response parsers

\* parseSDOAbort as [ok, Index, Subindex, Code].
parseSDOAbort(f) ==
    LET p == ParseCOBID(f.ID)
    IN IF ~p.ok \/ p.fc # FC_SDO_TX \/ f.Len # 8 \/ sdoCmd(f) # sdoSCSAbort
       THEN [ok |-> FALSE, Index |-> 0, Subindex |-> 0, Code |-> Wide(0)]
       ELSE [ok |-> TRUE, Index |-> IndexOf(f), Subindex |-> SubindexOf(f),
             Code |-> Uint32(D(f, 4), D(f, 5), D(f, 6), D(f, 7))]

\* parseSDOExpeditedUploadResponse as [ok, idx, sub, data].
parseSDOExpeditedUploadResponse(f) ==
    LET p == ParseCOBID(f.ID)
        cmd == D(f, 0)
        expedited == (cmd \div 8) % 2 = 1
        sizeIndicated == (cmd \div 4) % 2 = 1
        size == 4 - (cmd % 4)
    IN IF ~p.ok \/ p.fc # FC_SDO_TX \/ f.Len # 8 \/ sdoCmd(f) # sdoSCSUploadInitiate
          \/ ~expedited \/ ~sizeIndicated
       THEN [ok |-> FALSE, idx |-> 0, sub |-> 0, data |-> <<>>]
       ELSE [ok |-> TRUE, idx |-> IndexOf(f), sub |-> SubindexOf(f),
             data |-> SubSeq(f.Data, 5, 4 + size)]

\* A faulty segment parser that honours n although c = 0.
parseSDOUploadSegmentDataAlwaysN(f) ==
    LET cFlag == D(f, 0) % 2 = 1
        n == (D(f, 0) \div 2) % 8
        end == 8 - n
    IN IF end < 1 \/ end > 8 THEN [ok |-> FALSE, data |-> <<>>, last |-> FALSE]
       ELSE [ok |-> TRUE, data |-> SubSeq(f.Data, 2, end), last |-> cFlag]

\* parseSDOUploadSegmentData as [ok, data, last]: bytes 1..end-1, end = 8 or 8-n.
parseSDOUploadSegmentData(f) ==
    LET cFlag == D(f, 0) % 2 = 1
        n == (D(f, 0) \div 2) % 8
        end == IF cFlag THEN 8 - n ELSE 8
    IN IF end < 1 \/ end > 8 THEN [ok |-> FALSE, data |-> <<>>, last |-> FALSE]
       ELSE [ok |-> TRUE, data |-> SubSeq(f.Data, 2, end), last |-> cFlag]

\* ------------------------------------------------------------------ filters

sdoMatchAbortFor(index, subindex, f) ==
    sdoCmd(f) = sdoSCSAbort /\ IndexOf(f) = index /\ SubindexOf(f) = subindex

sdoMatchDownloadInitiateOK(index, subindex, f) ==
    sdoCmd(f) = sdoSCSDownloadInitiate /\ IndexOf(f) = index /\ SubindexOf(f) = subindex

\* A faulty acknowledgement filter that ignores the toggle bit.
sdoMatchDownloadSegAckAnyToggle(toggle, f) ==
    sdoCmd(f) = sdoSCSDownloadSegment

sdoMatchDownloadSegAck(toggle, f) ==
    sdoCmd(f) = sdoSCSDownloadSegment /\ ToggleOf(f) = toggle % 2

sdoMatchUploadInitiate(f) == sdoCmd(f) = sdoSCSUploadInitiate

\* A faulty segment filter that ignores the toggle bit.
sdoMatchUploadSegAnyToggle(toggle, f) ==
    sdoCmd(f) = sdoSCSUploadSegment

sdoMatchUploadSeg(toggle, f) ==
    sdoCmd(f) = sdoSCSUploadSegment /\ ToggleOf(f) = toggle % 2

\* sdoServerFilterForNode: SDO_TX frames of length 8 from the node.
sdoServerFilterForNode(node, f) ==
    LET p == ParseCOBID(f.ID)
    IN p.ok /\ p.fc = FC_SDO_TX /\ p.node = node /\ f.Len = 8

\* The closures handed to Mux.Subscribe, as data: the phase that built the
\* filter and the values it captured.
Filter(kind, node, index, subindex, toggle) ==
    [kind |-> kind, node |-> node, index |-> index, subindex |-> subindex, toggle |-> toggle]

\* Download, expedited: the inline closure (DownloadInitiate ack or abort,
\* both for the call's index/subindex).
MatchDownloadExpedited(flt, f) ==
    /\ sdoServerFilterForNode(flt.node, f)
    /\ IF sdoCmd(f) = sdoSCSAbort
       THEN IndexOf(f) = flt.index /\ SubindexOf(f) = flt.subindex
       ELSE sdoCmd(f) = sdoSCSDownloadInitiate
            /\ IndexOf(f) = flt.index /\ SubindexOf(f) = flt.subindex

MatchDownloadInitiate(flt, f) ==
    /\ sdoServerFilterForNode(flt.node, f)
    /\ IF sdoCmd(f) = sdoSCSAbort
       THEN sdoMatchAbortFor(flt.index, flt.subindex, f)
       ELSE sdoMatchDownloadInitiateOK(flt.index, flt.subindex, f)

MatchDownloadSegment(flt, f) ==
    /\ sdoServerFilterForNode(flt.node, f)
    /\ IF sdoCmd(f) = sdoSCSAbort THEN TRUE ELSE sdoMatchDownloadSegAck(flt.toggle, f)

MatchUploadInitiate(flt, f) ==
    /\ sdoServerFilterForNode(flt.node, f)
    /\ IF sdoCmd(f) = sdoSCSAbort
       THEN sdoMatchAbortFor(flt.index, flt.subindex, f)
       ELSE sdoMatchUploadInitiate(f)

MatchUploadSegment(flt, f) ==
    /\ sdoServerFilterForNode(flt.node, f)
    /\ IF sdoCmd(f) = sdoSCSAbort THEN TRUE ELSE sdoMatchUploadSeg(flt.toggle, f)

\* ByID(id) of the filter library.
ByID(id, f) == f.ID = id

\* The filter SubscribeHeartbeats subscribes with; nodeFilter nil is NoNode.
NoNode == -1
MatchHeartbeat(flt, f) ==
    LET p == ParseCOBID(f.ID)
    IN  /\ p.ok
        /\ p.fc = FC_NMT_ERRCTRL
        /\ f.Len >= 1
        /\ (flt.node # NoNode => p.node = flt.node)

\* s.filter == nil || s.filter(f) in Mux.run.
Matches(flt, f) ==
    CASE flt.kind = "exp" -> MatchDownloadExpedited(flt, f)
      [] flt.kind = "init" -> MatchDownloadInitiate(flt, f)
      [] flt.kind = "seg" -> MatchDownloadSegment(flt, f)
      [] flt.kind = "upinit" -> MatchUploadInitiate(flt, f)
      [] flt.kind = "upseg" -> MatchUploadSegment(flt, f)
      [] flt.kind = "nil" -> TRUE
      [] flt.kind = "ByID" -> ByID(flt.index, f)
      [] flt.kind = "hb" -> MatchHeartbeat(flt, f)
      [] OTHER -> FALSE

\* ----------------------------------------------------------------- inputs

\* One client goroutine in Spec; two goroutines sharing the client in SpecConc.
Callers == {1, 2}

\* The node the client addresses, and another node on the same bus.
ClientNodes == {34}
OtherNodes == {35}

\* time.Duration values the client is constructed with: 0 waits forever.
Timeouts == {0, 1}

\* The object a call addresses, and another object of the same server.
ReqObjects == {[index |-> 8192, subindex |-> 1]}
OtherObjects == {[index |-> 12288, subindex |-> 1]}

\* Payload of length L: L distinct non-zero bytes.
Payload(L) == [i \in 1..L |-> 160 + i]
\* Lengths at the edges of the transfer kinds: expedited (0, 1, 4), one segment
\* (5, 7), two segments (8, 14), and the longest payload.
PayloadLens == {0, 1, 4, 5, 7, 8, 14, MaxLen}
Payloads == {Payload(L) : L \in PayloadLens}

\* CiA 301 abort codes a server answers with (0x06020000: object does not exist).
AbortCodes == {Wide(100794368)}

\* --------------------------------------------------- frames a server sends

SrvInitiate(node, cmd, obj, tail) ==
    [ID |-> COBID(FC_SDO_TX, node), Len |-> 8,
     Data |-> InitiateData(cmd, obj.index, obj.subindex, tail)]

SrvSegment(node, cmd, payload) ==
    [ID |-> COBID(FC_SDO_TX, node), Len |-> 8,
     Data |-> CopyInto(<<cmd, 0, 0, 0, 0, 0, 0, 0>>, 1, payload)]

\* Download-initiate acknowledgements (SCS=3).
SrvDownloadInitiateAcks ==
    {SrvInitiate(n, sdoSCSDownloadInitiate * 32, o, <<0, 0, 0, 0>>) :
        n \in ClientNodes, o \in ReqObjects \cup OtherObjects}

\* Download-segment acknowledgements (SCS=1), either toggle.
SrvDownloadSegAcks ==
    {SrvSegment(n, sdoSCSDownloadSegment * 32 + 16 * t, <<>>) : n \in ClientNodes, t \in {0, 1}}

\* Aborts (SCS=4).
SrvAborts ==
    {SrvInitiate(n, sdoSCSAbort * 32, o, PutUint32(code)) :
        n \in ClientNodes, o \in ReqObjects \cup OtherObjects, code \in AbortCodes}

\* Upload-initiate responses (SCS=2): expedited with e=1,s=1,n=1 (3 bytes) and
\* with e=1,s=0; segmented with a declared size (9 bytes; 0xFFFFFFFF) and
\* without one.
SrvUploadInitiates ==
    {SrvInitiate(n, sdoSCSUploadInitiate * 32 + 8 + 4 + 1, o, <<222, 173, 190, 0>>) :
        n \in ClientNodes, o \in ReqObjects}
    \cup {SrvInitiate(n, sdoSCSUploadInitiate * 32 + 8 + 1, o, <<222, 173, 190, 0>>) :
        n \in ClientNodes, o \in ReqObjects}
    \cup {SrvInitiate(n, sdoSCSUploadInitiate * 32 + 4, o, PutUint32(Wide(9))) :
        n \in ClientNodes, o \in ReqObjects \cup OtherObjects}
    \cup {SrvInitiate(n, sdoSCSUploadInitiate * 32 + 4, o, PutUint32([hi |-> 65535, lo |-> 65535])) :
        n \in ClientNodes, o \in ReqObjects}
    \cup {SrvInitiate(n, sdoSCSUploadInitiate * 32, o, <<0, 0, 0, 0>>) :
        n \in ClientNodes, o \in ReqObjects}

\* Upload-segment responses (SCS=0): either toggle; continuing (c=0, once
\* with stray n bits), final with n=0 (7 bytes) and final with n=5 (2 bytes).
SegPayload(t) == [i \in 1..7 |-> 16 * (t + 1) + i]
SrvUploadSegments ==
    {SrvSegment(n, sdoSCSUploadSegment * 32 + 16 * t + 6 * t, SegPayload(t)) :
        n \in ClientNodes, t \in {0, 1}}
    \cup {SrvSegment(n, sdoSCSUploadSegment * 32 + 16 * t + 1, SegPayload(t)) :
        n \in ClientNodes, t \in {0, 1}}
    \cup {SrvSegment(n, sdoSCSUploadSegment * 32 + 16 * t + 10 + 1, SegPayload(t)) :
        n \in ClientNodes, t \in {0, 1}}

\* Frames the filters must reject: another node's acknowledgement, a short frame.
SrvForeign ==
    {SrvInitiate(n, sdoSCSDownloadInitiate * 32, o, <<0, 0, 0, 0>>) :
        n \in OtherNodes, o \in ReqObjects}
    \cup {[ID |-> COBID(FC_SDO_TX, n), Len |-> 4, Data |-> <<sdoSCSAbort * 32, 0, 32, 1, 0, 0, 0, 0>>] :
        n \in ClientNodes}

\* Everything Bus.Receive may hand to the Mux reader.
ServerFrames ==
    SrvDownloadInitiateAcks \cup SrvDownloadSegAcks \cup SrvAborts
    \cup SrvUploadInitiates \cup SrvUploadSegments \cup SrvForeign

\* ------------------------------------------------------------------- state

VARIABLES
    client,   \* SDOClient: [node, timeout, expeditedMode]
    sw,       \* SYNCWriter: its stop channel, the goroutines Start launched,
              \* the ticks elapsed and the frames sent on the bus
    mc,       \* the tasks calling Mux.Close concurrently, and a panic if any
    io,       \* the last call of a pure function: [op, arg, res]
    hb,       \* SubscribeHeartbeats: its subscription, its goroutine, the
              \* channel it returned and whether the consumer waits on it
    call,     \* per caller: the locals of its Download/Upload call and where it is
    hist,     \* per caller, for the record: frames the call sent and dequeued,
              \* the subscriptions it created, what ended its last wait, and
              \* whether a segment response with the other toggle came in meanwhile
    subs,     \* Mux.subs: subscription id -> [filter]
    chans,    \* the subscriber channels: id -> [buf, cap, closed]
    next,     \* Mux.next
    stop,     \* Mux.stop is closed
    reader,   \* where the goroutine of Mux.run is
    closer,   \* the goroutine calling Mux.Close
    nrecv,    \* frames Bus.Receive has returned to the reader
    mx,       \* the consumers of Mux subscriptions and, for the record, what
              \* the reader received and which of it each consumer dequeued
    lb        \* LoopbackBus, its endpoints and the goroutines using them

vars == <<client, sw, mc, io, hb, call, hist, subs, chans, next, stop, reader, closer, nrecv, mx, lb>>

NoChan == -1
\* make(map[uint64]*subscriber)
NoSubs == [i \in {} |-> 0]

\* The error (or nil) a call returns, with the fields of SDOAbort and the
\* bytes Upload returns.
Result(kind) == [kind |-> kind, Index |-> 0, Subindex |-> 0, Code |-> Wide(0), data |-> <<>>]
NoResult == Result("none")
AbortResult(ab) ==
    [kind |-> "SDOAbort", Index |-> ab.Index, Subindex |-> ab.Subindex, Code |-> ab.Code, data |-> <<>>]
DataResult(d) == [kind |-> "nil", Index |-> 0, Subindex |-> 0, Code |-> Wide(0), data |-> d]

IdleCall ==
    [pc |-> "idle", phase |-> "none", op |-> "none", index |-> 0, subindex |-> 0,
     data |-> <<>>, req |-> ZeroFrame, sent |-> 0, toggle |-> 0, out |-> <<>>,
     total |-> Wide(-1), rsp |-> ZeroFrame, err |-> "nil", ch |-> NoChan, chSeg |-> NoChan,
     result |-> NoResult]

\* No consumer has subscribed and the reader has received nothing.
NoMx == [rlog |-> <<>>, qpos |-> NoSubs, got |-> NoSubs, waiting |-> {}]

\* No Send has been called: the state of the goroutine that calls Send.
NoSend ==
    [pc |-> "idle", ep |-> 0, frame |-> ZeroFrame, targets |-> <<>>, snap |-> {},
     deadAtStart |-> {}, res |-> "none"]

\* NewLoopbackBus(): open, no endpoint.  eps are the endpoints Open has
\* returned, endpoints the registered ones, snd the goroutine calling Send,
\* panic the runtime fault that ended the program, if any.
NoLb ==
    [closed |-> FALSE, endpoints |-> {}, eps |-> <<>>, snd |-> NoSend, nsent |-> 0,
     panic |-> "none"]

NoHist ==
    [sentLog |-> <<>>, rcvLog |-> <<>>, created |-> {}, why |-> "none", wrongToggle |-> FALSE,
     stale |-> FALSE]

\* NewMux(bus) with the reader started, and NewSDOClient(bus, node, mux, timeout).
\* SubscribeHeartbeats has not been called.
NoHb == [pc |-> "none", sub |-> NoChan, held |-> <<>>,
         out |-> [buf |-> <<>>, cap |-> 0, closed |-> FALSE], waiting |-> FALSE]

\* NewSYNCWriter(bus, interval, true): stop open, no goroutine, nothing sent.
NoSw == [stop |-> FALSE, withCounter |-> TRUE, runs |-> <<>>, now |-> 0, log |-> <<>>]

\* No task is in Mux.Close: pc holds the position of every task that has
\* called it, closes counts the executions of close(m.stop), panic is the
\* runtime fault that ended the program, if any.
NoMc == [pc |-> <<>>, closes |-> 0, panic |-> "none"]

\* No pure function has been called.
NoIo == [op |-> "none", arg |-> <<>>, res |-> <<>>]

Init ==
    /\ client \in [node : ClientNodes, timeout : Timeouts, expeditedMode : {ExpeditedModeSpec}]
    /\ call = [c \in Callers |-> IdleCall]
    /\ hist = [c \in Callers |-> NoHist]
    /\ subs = NoSubs
    /\ chans = NoSubs
    /\ next = 0
    /\ stop = FALSE
    /\ reader = "top"
    /\ closer = "idle"
    /\ nrecv = 0
    /\ mx = NoMx
    /\ io = NoIo
    /\ hb = NoHb
    /\ sw = NoSw
    /\ mc = NoMc
    /\ lb = NoLb

\* ------------------------------------------------------------------- Mux

Without(fn, id) == [i \in DOMAIN fn \ {id} |-> fn[i]]
With(fn, id, v) == [i \in DOMAIN fn \cup {id} |-> IF i = id THEN v ELSE fn[i]]

\* make(chan Frame, buffer), buffer < 0 normalised to 0.
MakeChan(buffer) == [buf |-> <<>>, cap |-> IF buffer < 0 THEN 0 ELSE buffer, closed |-> FALSE]

\* A faulty shutdown that forgets the subscribers without closing their channels.
CloseAllSubsNoClose ==
    /\ chans' = chans
    /\ subs' = NoSubs

\* close(s.ch) for every subscriber, delete(m.subs, id): the loop of Mux.Close
\* and of the error path of Mux.run, under m.mu.Lock.
CloseAllSubs ==
    /\ chans' = [id \in DOMAIN chans |->
                    IF id \in DOMAIN subs THEN [chans[id] EXCEPT !.closed = TRUE] ELSE chans[id]]
    /\ subs' = NoSubs

\* The cancel function returned by Subscribe: close the channel and remove the
\* subscription if it is still registered.  The caller drops its reference to
\* the channel with it.
CancelChans(id) == Without(chans, id)

\* A faulty cancel that leaves the subscription registered.
CancelSubsKeep(id) == subs

\* The subscriber set after cancel: delete(m.subs, id) if id is still there.
CancelSubs(id) == IF id \in DOMAIN subs THEN Without(subs, id) ELSE subs

\* select { case s.ch <- f: default: } for every subscriber whose filter accepts f.
Accepts(id, f) == id \in DOMAIN subs /\ Matches(subs[id].filter, f)
HasRoom(id) == Len(chans[id].buf) < chans[id].cap

\* A faulty fan-out that gives the frame to nobody when one accepting
\* subscriber has no room.
DispatchedAllOrNothing(f) ==
    [id \in DOMAIN chans |->
        IF Accepts(id, f) /\ \A other \in DOMAIN chans : Accepts(other, f) => HasRoom(other)
        THEN [chans[id] EXCEPT !.buf = Append(@, f)]
        ELSE chans[id]]

\* A faulty buffered send that puts the frame at the head of the queue.
BufferedInFront(f) ==
    [id \in DOMAIN chans |->
        IF Accepts(id, f) /\ HasRoom(id)
        THEN [chans[id] EXCEPT !.buf = <<f>> \o @]
        ELSE chans[id]]

\* A faulty fan-out that also sends to channels that are no longer registered.
DispatchedUnregistered(f) ==
    [id \in DOMAIN chans |->
        IF (id \in DOMAIN subs => Matches(subs[id].filter, f)) /\ HasRoom(id)
        THEN [chans[id] EXCEPT !.buf = Append(@, f)]
        ELSE chans[id]]

\* The subscriber channels after the fan-out of f.
Dispatched(f) ==
    [id \in DOMAIN chans |->
        IF Accepts(id, f) /\ HasRoom(id)
        THEN [chans[id] EXCEPT !.buf = Append(@, f)]
        ELSE chans[id]]

\* For the record: f is a segment response of the kind the waiting call expects
\* from its node, with the toggle it does not expect.
WrongToggleFor(cr, f) ==
    /\ cr.pc = "wait"
    /\ cr.phase \in {"seg", "upseg"}
    /\ sdoServerFilterForNode(client.node, f)
    /\ sdoCmd(f) = (IF cr.phase = "seg" THEN sdoSCSDownloadSegment ELSE sdoSCSUploadSegment)
    /\ ToggleOf(f) # cr.toggle

\* For the record: call c has subscribed for its first request and has not
\* sent it yet, another call of the client for the same object has timed out
\* on its first request, and the fan-out of f puts f into the queue of c: f
\* is not the server's reply to a request of c.
TimedOutOnFirst(d) ==
    /\ hist[d].why = "timeout"
    /\ Len(hist[d].sentLog) = 1
    /\ hist[d].rcvLog = <<>>
StaleEnqueued(c, f) ==
    /\ call[c].pc = "send"
    /\ call[c].phase \notin {"seg", "upseg"}
    /\ \E d \in Callers \ {c} :
          /\ TimedOutOnFirst(d)
          /\ call[d].op = call[c].op
          /\ call[d].index = call[c].index /\ call[d].subindex = call[c].subindex
    /\ Accepts(call[c].ch, f) /\ HasRoom(call[c].ch)

\* Mux.run, top of the loop: select on m.stop, else go on to Receive.
ReaderTop ==
    /\ reader = "top"
    /\ reader' = IF stop THEN "exited" ELSE "recv"
    /\ UNCHANGED <<mx, lb, client, sw, mc, io, hb, call, hist, subs, chans, next, stop, closer, nrecv>>

\* m.bus.Receive() returns one of frames, which is fanned out under m.mu.RLock.
ReaderReceiveFrom(frames, limit) ==
    /\ reader = "recv"
    /\ nrecv < limit
    /\ \E f \in frames :
          /\ chans' = Dispatched(f)
          /\ hist' = [c \in Callers |->
                        IF WrongToggleFor(call[c], f)
                        THEN [hist[c] EXCEPT !.wrongToggle = TRUE] ELSE hist[c]]
    /\ reader' = "top"
    /\ nrecv' = nrecv + 1
    /\ UNCHANGED <<mx, lb, client, sw, mc, io, hb, call, subs, next, stop, closer>>

ReaderReceiveUpTo(limit) == ReaderReceiveFrom(ServerFrames, limit)

ReaderReceive == ReaderReceiveUpTo(MaxRecv)

\* A faulty error path that closes the subscribers and goes on reading.
ReaderReceiveErrorGoesOn ==
    /\ reader = "recv"
    /\ CloseAllSubs
    /\ reader' = "top"
    /\ UNCHANGED <<mx, lb, client, sw, mc, io, hb, call, hist, next, stop, closer, nrecv>>

\* m.bus.Receive() returns an error: close every subscriber and exit.
ReaderReceiveError ==
    /\ reader = "recv"
    /\ CloseAllSubs
    /\ reader' = "failed"
    /\ UNCHANGED <<mx, lb, client, sw, mc, io, hb, call, hist, next, stop, closer, nrecv>>

\* Mux.Close: close(m.stop) ...
MuxCloseStop ==
    /\ closer = "idle"
    /\ ~stop
    /\ stop' = TRUE
    /\ closer' = "closing"
    /\ UNCHANGED <<mx, lb, client, sw, mc, io, hb, call, hist, subs, chans, next, reader, nrecv>>

\* ... then close and delete every subscriber under m.mu.Lock.
MuxCloseSubs ==
    /\ closer = "closing"
    /\ CloseAllSubs
    /\ closer' = "closed"
    /\ UNCHANGED <<mx, lb, client, sw, mc, io, hb, call, hist, next, stop, reader, nrecv>>

\* ------------------------------------------------------- SDOClient calls

Segmented(cr) == cr.phase \in {"seg", "upseg"}
\* The channel the call waits on in its current phase.
WaitChan(cr) == IF Segmented(cr) THEN cr.chSeg ELSE cr.ch
\* Buffer the phase subscribes with.
BufferOf(phase) == IF phase = "upinit" THEN 2 ELSE 1

\* Download's loop body up to the frame: remain, segLen, last, seg.
SegLen(cr) == Min(7, Len(cr.data) - cr.sent)
DownloadSegmentFrame(node, cr) ==
    buildSDODownloadSegment(node, SubSeq(cr.data, cr.sent + 1, cr.sent + SegLen(cr)),
                            cr.toggle, cr.sent + SegLen(cr) = Len(cr.data))

\* What Download does before its first Subscribe.
DownloadStart(cr, index, subindex, data) ==
    LET b == IF client.expeditedMode = ExpeditedModeClassic
             THEN sdoExpeditedDownloadClassic(client.node, index, subindex, data)
             ELSE sdoExpeditedDownload(client.node, index, subindex, data)
        in == [cr EXCEPT !.op = "Download", !.index = index, !.subindex = subindex, !.data = data]
    IN IF Len(data) <= 4
       THEN IF b.ok
            THEN [in EXCEPT !.pc = "sub", !.phase = "exp", !.req = b.f]
            ELSE [in EXCEPT !.pc = "done", !.result = Result("ValidationErr")]
       ELSE [in EXCEPT !.pc = "sub", !.phase = "init",
                       !.req = buildSDODownloadInitiateSegmented(
                                   client.node, index, subindex, Wide(Len(data)))]

\* What Upload does before its first Subscribe.
UploadStart(cr, index, subindex) ==
    LET b == sdoExpeditedUploadRequest(client.node, index, subindex)
        in == [cr EXCEPT !.op = "Upload", !.index = index, !.subindex = subindex]
    IN IF b.ok
       THEN [in EXCEPT !.pc = "sub", !.phase = "upinit", !.req = b.f]
       ELSE [in EXCEPT !.pc = "done", !.result = Result("ValidationErr")]

\* return err, with the deferred cancel still to run.
Return(cr, res) == [cr EXCEPT !.pc = "unwind", !.result = res]

\* Download after the expedited response: abort or success.
AfterExpedited(cr) ==
    LET ab == parseSDOAbort(cr.rsp)
    IN {IF ab.ok THEN Return(cr, AbortResult(ab)) ELSE Return(cr, Result("nil"))}

\* Download after the initiate response: abort, or enter the segment loop.
AfterDownloadInitiate(cr) ==
    LET ab == parseSDOAbort(cr.rsp)
    IN {IF ab.ok THEN Return(cr, AbortResult(ab))
        ELSE [cr EXCEPT !.pc = "sub", !.phase = "seg", !.toggle = 0, !.sent = 0]}

\* Upload after the first response: abort, expedited data, or the checks that
\* lead into the segment loop.
AfterUploadInitiate(cr) ==
    LET first == cr.rsp
        ab == parseSDOAbort(first)
        ex == parseSDOExpeditedUploadResponse(first)
        sized == (D(first, 0) \div 4) % 2 = 1
        totals == IF sized
                  THEN IntOfUint32(Uint32(D(first, 4), D(first, 5), D(first, 6), D(first, 7)))
                  ELSE {Wide(-1)}
    IN IF ab.ok /\ ab.Index = cr.index /\ ab.Subindex = cr.subindex
       THEN {Return(cr, AbortResult(ab))}
       ELSE IF ex.ok /\ ex.idx = cr.index /\ ex.sub = cr.subindex
       THEN {Return(cr, DataResult(ex.data))}
       ELSE IF sdoCmd(first) # sdoSCSUploadInitiate
       THEN {Return(cr, Result("ProtoErr"))}
       ELSE IF (D(first, 0) \div 8) % 2 = 1
       THEN {Return(cr, Result("ProtoErr"))}
       ELSE IF IndexOf(first) # cr.index \/ SubindexOf(first) # cr.subindex
       THEN {Return(cr, Result("ProtoErr"))}
       ELSE {[cr EXCEPT !.pc = "sub", !.phase = "upseg", !.toggle = 0, !.out = <<>>,
                        !.total = t] : t \in totals}

\* A faulty loop body that does not look for an abort in the response.
AfterDownloadSegmentNoAbort(cr) ==
    LET sent == cr.sent + SegLen(cr)
    IN IF cr.err # "nil" THEN Return(cr, Result(cr.err))
       ELSE IF sent < Len(cr.data)
       THEN [cr EXCEPT !.pc = "sub", !.sent = sent, !.toggle = 1 - cr.toggle]
       ELSE Return([cr EXCEPT !.sent = sent, !.toggle = 1 - cr.toggle], Result("nil"))

\* Download's loop after cancelSeg(): error, abort, or the next segment.
AfterDownloadSegment(cr) ==
    LET ab == parseSDOAbort(cr.rsp)
        sent == cr.sent + SegLen(cr)
    IN IF cr.err # "nil" THEN Return(cr, Result(cr.err))
       ELSE IF ab.ok THEN Return(cr, AbortResult(ab))
       ELSE IF sent < Len(cr.data)
       THEN [cr EXCEPT !.pc = "sub", !.sent = sent, !.toggle = 1 - cr.toggle]
       ELSE Return([cr EXCEPT !.sent = sent, !.toggle = 1 - cr.toggle], Result("nil"))

\* Upload's loop after cancelSeg(): error, abort, append, and on the last
\* segment the size check.
AfterUploadSegment(cr) ==
    LET ab == parseSDOAbort(cr.rsp)
        seg == parseSDOUploadSegmentData(cr.rsp)
        out == cr.out \o seg.data
    IN IF cr.err # "nil" THEN Return(cr, Result(cr.err))
       ELSE IF ab.ok THEN Return(cr, AbortResult(ab))
       ELSE IF ~seg.ok THEN Return(cr, Result("ProtoErr"))
       ELSE IF ~seg.last
       THEN [cr EXCEPT !.pc = "sub", !.out = out, !.toggle = 1 - cr.toggle]
       ELSE IF WideNonNeg(cr.total) /\ Wide(Len(out)) # cr.total
       THEN Return([cr EXCEPT !.out = out, !.toggle = 1 - cr.toggle], Result("ProtoErr"))
       ELSE Return([cr EXCEPT !.out = out, !.toggle = 1 - cr.toggle], DataResult(out))

\* The code after a wait that yielded a frame, outside the segment loops.
AfterFirst(cr) ==
    CASE cr.phase = "exp" -> AfterExpedited(cr)
      [] cr.phase = "init" -> AfterDownloadInitiate(cr)
      [] OTHER -> AfterUploadInitiate(cr)

\* A wait that ended without a frame: inside the segment loops cancelSeg()
\* runs first, elsewhere the call returns the error.
WaitFailed(cr, e) ==
    IF Segmented(cr) THEN [cr EXCEPT !.pc = "cancelseg", !.err = e]
    ELSE Return([cr EXCEPT !.err = e], Result(e))

\* A caller enters Download(index, subindex, data).
InvokeDownload(c, o, data) ==
    /\ call[c].pc = "idle"
    /\ call' = [call EXCEPT ![c] = DownloadStart(call[c], o.index, o.subindex, data)]
    /\ UNCHANGED <<mx, lb, client, sw, mc, io, hb, hist, subs, chans, next, stop, reader, closer, nrecv>>

\* A caller enters Upload(index, subindex).
InvokeUpload(c, o) ==
    /\ call[c].pc = "idle"
    /\ call' = [call EXCEPT ![c] = UploadStart(call[c], o.index, o.subindex)]
    /\ UNCHANGED <<mx, lb, client, sw, mc, io, hb, hist, subs, chans, next, stop, reader, closer, nrecv>>

\* A faulty Subscribe that hands out the channel and registers nothing, so
\* the request goes out before any subscription exists.
SubscribeNotRegistered(c) ==
    LET cr == call[c]
    IN /\ cr.pc = "sub"
       /\ next' = next + 1
       /\ call' = [call EXCEPT ![c] =
                     IF Segmented(cr)
                     THEN [cr EXCEPT !.pc = "send", !.chSeg = next, !.rsp = ZeroFrame, !.err = "nil"]
                     ELSE [cr EXCEPT !.pc = "send", !.ch = next]]
       /\ UNCHANGED <<mx, lb, client, sw, mc, io, hb, hist, subs, chans, stop, reader, closer, nrecv>>

\* c.mux.Subscribe(filter, buffer) of the current phase; in the segment loops
\* the request frame is built just before it.
Subscribe(c) ==
    LET cr == call[c]
        flt == Filter(cr.phase, client.node, cr.index, cr.subindex, cr.toggle)
        req == CASE cr.phase = "seg" -> DownloadSegmentFrame(client.node, cr)
                 [] cr.phase = "upseg" -> UploadSegmentRequest(client.node, cr.toggle)
                 [] OTHER -> cr.req
    IN /\ cr.pc = "sub"
       /\ subs' = With(subs, next, [filter |-> flt])
       /\ chans' = With(chans, next, MakeChan(BufferOf(cr.phase)))
       /\ next' = next + 1
       /\ call' = [call EXCEPT ![c] =
                     IF Segmented(cr)
                     THEN [cr EXCEPT !.pc = "send", !.req = req, !.chSeg = next,
                                     !.rsp = ZeroFrame, !.err = "nil"]
                     ELSE [cr EXCEPT !.pc = "send", !.ch = next]]
       /\ hist' = [hist EXCEPT ![c].created = @ \cup {next}]
       /\ UNCHANGED <<mx, lb, client, sw, mc, io, hb, stop, reader, closer, nrecv>>

\* c.bus.Send(req) returns nil: the request is on the bus.
SendOK(c) ==
    /\ call[c].pc = "send"
    /\ call' = [call EXCEPT ![c].pc = "wait"]
    /\ hist' = [hist EXCEPT ![c].sentLog = Append(@, call[c].req)]
    /\ UNCHANGED <<mx, lb, client, sw, mc, io, hb, subs, chans, next, stop, reader, closer, nrecv>>

\* c.bus.Send(req) returns an error.
SendFail(c) ==
    /\ call[c].pc = "send"
    /\ call' = [call EXCEPT ![c] = WaitFailed(call[c], "SendErr")]
    /\ hist' = [hist EXCEPT ![c].why = "send"]
    /\ UNCHANGED <<mx, lb, client, sw, mc, io, hb, subs, chans, next, stop, reader, closer, nrecv>>

\* waitWithTimeout: a frame is received from the channel.
WaitFrame(c) ==
    LET cr == call[c]
        id == WaitChan(cr)
        got == [cr EXCEPT !.rsp = Head(chans[id].buf)]
    IN /\ cr.pc = "wait"
       /\ chans[id].buf # <<>>
       /\ chans' = [chans EXCEPT ![id].buf = Tail(@)]
       /\ \E nc \in (IF Segmented(cr) THEN {[got EXCEPT !.pc = "cancelseg"]} ELSE AfterFirst(got)) :
             call' = [call EXCEPT ![c] = nc]
       /\ hist' = [hist EXCEPT ![c].rcvLog = Append(@, got.rsp), ![c].why = "frame"]
       /\ UNCHANGED <<mx, lb, client, sw, mc, io, hb, subs, next, stop, reader, closer, nrecv>>

\* waitWithTimeout: the channel is closed and drained.
WaitClosed(c) ==
    LET cr == call[c]
        id == WaitChan(cr)
    IN /\ cr.pc = "wait"
       /\ chans[id].closed
       /\ chans[id].buf = <<>>
       /\ call' = [call EXCEPT ![c] = WaitFailed(cr, "ErrClosed")]
       /\ hist' = [hist EXCEPT ![c].why = "closed"]
       /\ UNCHANGED <<mx, lb, client, sw, mc, io, hb, subs, chans, next, stop, reader, closer, nrecv>>

\* A faulty timeout path that puts an abort request on the bus before failing.
WaitTimeoutSendsAbort(c) ==
    /\ call[c].pc = "wait"
    /\ client.timeout > 0
    /\ call' = [call EXCEPT ![c] = WaitFailed(call[c], "ErrClosed")]
    /\ hist' = [hist EXCEPT ![c].why = "timeout",
                            ![c].sentLog = Append(@,
                                [ID |-> COBID(FC_SDO_RX, client.node), Len |-> 8,
                                 Data |-> InitiateData(sdoCCSAbort * 32, call[c].index,
                                                       call[c].subindex, <<0, 0, 0, 0>>)])]
    /\ UNCHANGED <<mx, lb, client, sw, mc, io, hb, subs, chans, next, stop, reader, closer, nrecv>>

\* A faulty timeout that shuts the Mux down as well.
WaitTimeoutClosesMux(c) ==
    /\ call[c].pc = "wait"
    /\ client.timeout > 0
    /\ call' = [call EXCEPT ![c] = WaitFailed(call[c], "ErrClosed")]
    /\ hist' = [hist EXCEPT ![c].why = "timeout"]
    /\ CloseAllSubs
    /\ stop' = TRUE
    /\ UNCHANGED <<mx, lb, client, sw, mc, io, hb, next, reader, closer, nrecv>>

\* waitWithTimeout: time.After(timeout) fires (select takes any ready case).
WaitTimeout(c) ==
    /\ call[c].pc = "wait"
    /\ client.timeout > 0
    /\ call' = [call EXCEPT ![c] = WaitFailed(call[c], "ErrClosed")]
    /\ hist' = [hist EXCEPT ![c].why = "timeout"]
    /\ UNCHANGED <<mx, lb, client, sw, mc, io, hb, subs, chans, next, stop, reader, closer, nrecv>>

\* cancelSeg() and the rest of the loop body of the segmented phases.
CancelSeg(c) ==
    LET cr == call[c]
        id == cr.chSeg
        nc == IF cr.phase = "seg" THEN AfterDownloadSegment(cr) ELSE AfterUploadSegment(cr)
    IN /\ cr.pc = "cancelseg"
       /\ subs' = CancelSubs(id)
       /\ chans' = CancelChans(id)
       /\ call' = [call EXCEPT ![c] = [nc EXCEPT !.chSeg = NoChan]]
       /\ UNCHANGED <<mx, lb, client, sw, mc, io, hb, hist, next, stop, reader, closer, nrecv>>

\* The deferred cancel() / cancelInit() on return.
Unwind(c) ==
    LET cr == call[c]
    IN /\ cr.pc = "unwind"
       /\ subs' = CancelSubs(cr.ch)
       /\ chans' = CancelChans(cr.ch)
       /\ call' = [call EXCEPT ![c] = [cr EXCEPT !.pc = "done", !.ch = NoChan]]
       /\ UNCHANGED <<mx, lb, client, sw, mc, io, hb, hist, next, stop, reader, closer, nrecv>>

CallStep(c) ==
    \/ Subscribe(c)
    \/ SendOK(c)
    \/ SendFail(c)
    \/ WaitFrame(c)
    \/ WaitClosed(c)
    \/ WaitTimeout(c)
    \/ CancelSeg(c)
    \/ Unwind(c)

MuxStep ==
    \/ ReaderTop
    \/ ReaderReceive
    \/ ReaderReceiveError
    \/ MuxCloseStop
    \/ MuxCloseSubs

\* One goroutine uses the client.
MainCaller == CHOOSE c \in Callers : \A d \in Callers : c <= d

Next ==
    \/ \E o \in ReqObjects, data \in Payloads : InvokeDownload(MainCaller, o, data)
    \/ \E o \in ReqObjects : InvokeUpload(MainCaller, o)
    \/ \E c \in Callers : CallStep(c)
    \/ MuxStep

Spec == Init /\ [][Next]_vars

\* Two goroutines call into the same client at the same time, each with an
\* expedited write, a two-segment write or a read; nobody closes the Mux.
ConcPayloads == {Payload(1), Payload(8)}

ReaderReceiveConc == ReaderReceiveUpTo(MaxRecvConc)

NextConc ==
    \/ \E c \in Callers, o \in ReqObjects, data \in ConcPayloads : InvokeDownload(c, o, data)
    \/ \E c \in Callers, o \in ReqObjects : InvokeUpload(c, o)
    \/ \E c \in Callers : CallStep(c)
    \/ ReaderTop
    \/ ReaderReceiveConc
    \/ ReaderReceiveError

SpecConc == Init /\ [][NextConc]_vars

\* Two goroutines call into a client that has a timeout, each with an
\* expedited write or a read; nobody closes the Mux.
MaxRecvTmo == 1

\* The reader's Receive and fan-out as in ReaderReceiveFrom, with the record
\* of the frames that reach a call's queue ahead of its request and after
\* the timeout of an earlier call.
ReaderReceiveTmo ==
    /\ reader = "recv"
    /\ nrecv < MaxRecvTmo
    /\ \E f \in ServerFrames :
          /\ chans' = Dispatched(f)
          /\ hist' = [c \in Callers |->
                        [hist[c] EXCEPT !.wrongToggle = @ \/ WrongToggleFor(call[c], f),
                                        !.stale = @ \/ StaleEnqueued(c, f)]]
    /\ reader' = "top"
    /\ nrecv' = nrecv + 1
    /\ UNCHANGED <<mx, lb, client, sw, mc, io, hb, call, subs, next, stop, closer>>

InitTmo == Init /\ client.timeout > 0

NextTmo ==
    \/ \E c \in Callers, o \in ReqObjects : InvokeDownload(c, o, Payload(1))
    \/ \E c \in Callers, o \in ReqObjects : InvokeUpload(c, o)
    \/ \E c \in Callers : CallStep(c)
    \/ ReaderTop
    \/ ReaderReceiveTmo
    \/ ReaderReceiveError

SpecTmo == InitTmo /\ [][NextTmo]_vars

\* One goroutine makes one call after the other on a client that has a
\* timeout: a call starts when no other call is under way.
Quiet == \A d \in Callers : call[d].pc \in {"idle", "done"}

NextSeq ==
    \/ \E c \in Callers, o \in ReqObjects : Quiet /\ InvokeDownload(c, o, Payload(1))
    \/ \E c \in Callers, o \in ReqObjects : Quiet /\ InvokeUpload(c, o)
    \/ \E c \in Callers : CallStep(c)
    \/ ReaderTop
    \/ ReaderReceiveTmo
    \/ ReaderReceiveError

SpecSeq == InitTmo /\ [][NextSeq]_vars

\* ------------------------------------------------ Mux with any subscribers

\* Subscriptions a run creates, and frames its reader receives: in the runs
\* about the end of subscriptions, and in the runs about fan-out.
MaxSubs == 2
MaxRecvMux == 1
MaxRecvFan == 2

\* MustFrame(id, []byte{1, 2, 3}).
MuxFrame(id) == [ID |-> id, Len |-> 3, Data |-> <<1, 2, 3, 0, 0, 0, 0, 0>>]
\* Identifiers 0x100 and 0x105: for ByID(0x100), and for nil filters only.
MuxFrames == {MuxFrame(256), MuxFrame(261)}
\* The filters subscribed with: nil and ByID(0x100).
MuxFilters == {Filter("nil", 0, 0, 0, 0), Filter("ByID", 0, 256, 0, 0)}
\* buffer arguments: negative (normalised to 0) and 1; and 2 as well where
\* the order within a queue matters.
MuxBuffers == {-1, 1}
FanBuffers == MuxBuffers \cup {2}

\* m.Subscribe(filter, buffer) by any consumer, at any time.
MuxSubscribe(flt, buffer) ==
    /\ next < MaxSubs
    /\ subs' = With(subs, next, [filter |-> flt])
    /\ chans' = With(chans, next, MakeChan(buffer))
    /\ next' = next + 1
    /\ mx' = [mx EXCEPT !.qpos = With(@, next, <<>>), !.got = With(@, next, <<>>)]
    /\ UNCHANGED <<client, sw, mc, io, hb, call, hist, stop, reader, closer, nrecv, lb>>

\* A faulty cancel that removes the subscription and leaves its channel open.
CancelledChansOpen(id) == chans

\* The channel after cancel(): closed if the subscription was still registered.
CancelledChans(id) ==
    IF id \in DOMAIN subs THEN [chans EXCEPT ![id].closed = TRUE] ELSE chans

\* cancel() of subscription id, called any number of times.
MuxCancel(id) ==
    /\ id \in DOMAIN chans
    /\ chans' = CancelledChans(id)
    /\ subs' = CancelSubs(id)
    /\ UNCHANGED <<client, sw, mc, io, hb, call, hist, next, stop, reader, closer, nrecv, mx, lb>>

\* case s.ch <- f succeeds on an unbuffered channel: the consumer is parked in
\* its receive and takes the frame directly.
HandedOver(id, f) == Accepts(id, f) /\ chans[id].cap = 0 /\ id \in mx.waiting
\* case s.ch <- f succeeds on a buffered channel.
Buffered(id, f) == Accepts(id, f) /\ HasRoom(id)

\* A faulty reader whose send to a subscriber blocks: it gets past a frame
\* only when every accepting subscriber can take it.
MuxReceiveBlocking(limit) ==
    /\ reader = "recv"
    /\ nrecv < limit
    /\ \E f \in MuxFrames :
          /\ \A id \in DOMAIN subs : Accepts(id, f) => (HasRoom(id) \/ id \in mx.waiting)
          /\ chans' = Dispatched(f)
          /\ mx' = [mx EXCEPT !.rlog = Append(@, f)]
    /\ reader' = "top"
    /\ nrecv' = nrecv + 1
    /\ UNCHANGED <<client, sw, mc, io, hb, call, hist, subs, next, stop, closer, lb>>

\* m.bus.Receive() returns f, which is fanned out; the position of f in the
\* stream is recorded with every copy.
MuxReceiveUpTo(limit) ==
    /\ reader = "recv"
    /\ nrecv < limit
    /\ \E f \in MuxFrames :
          LET pos == Len(mx.rlog) + 1
          IN /\ chans' = Dispatched(f)
             /\ mx' = [mx EXCEPT
                         !.rlog = Append(@, f),
                         !.qpos = [id \in DOMAIN @ |->
                                     IF Buffered(id, f) THEN Append(@[id], pos) ELSE @[id]],
                         !.got = [id \in DOMAIN @ |->
                                     IF HandedOver(id, f)
                                     THEN Append(@[id], [pos |-> pos, f |-> f]) ELSE @[id]],
                         !.waiting = {id \in @ : ~HandedOver(id, f)}]
    /\ reader' = "top"
    /\ nrecv' = nrecv + 1
    /\ UNCHANGED <<client, sw, mc, io, hb, call, hist, subs, next, stop, closer, lb>>

\* f, ok := <-ch with a frame in the buffer.
ConsumerDequeue(id) ==
    /\ id \in DOMAIN chans
    /\ chans[id].buf # <<>>
    /\ chans' = [chans EXCEPT ![id].buf = Tail(@)]
    /\ mx' = [mx EXCEPT !.got[id] = Append(@, [pos |-> Head(mx.qpos[id]),
                                                f |-> Head(chans[id].buf)]),
                         !.qpos[id] = Tail(@)]
    /\ UNCHANGED <<client, sw, mc, io, hb, call, hist, subs, next, stop, reader, closer, nrecv, lb>>

\* <-ch on an open unbuffered channel: the consumer blocks.
ConsumerPark(id) ==
    /\ id \in DOMAIN chans
    /\ chans[id].cap = 0
    /\ ~chans[id].closed
    /\ id \notin mx.waiting
    /\ mx' = [mx EXCEPT !.waiting = @ \cup {id}]
    /\ UNCHANGED <<client, sw, mc, io, hb, call, hist, subs, chans, next, stop, reader, closer, nrecv, lb>>

\* The blocked <-ch yields ok = false: the channel was closed.
ConsumerReleased(id) ==
    /\ id \in DOMAIN chans
    /\ chans[id].closed
    /\ id \in mx.waiting
    /\ mx' = [mx EXCEPT !.waiting = @ \ {id}]
    /\ UNCHANGED <<client, sw, mc, io, hb, call, hist, subs, chans, next, stop, reader, closer, nrecv, lb>>

ConsumerStep(id) ==
    \/ MuxCancel(id)
    \/ ConsumerDequeue(id)
    \/ ConsumerPark(id)
    \/ ConsumerReleased(id)

\* NewMux(bus) used by consumers of their own; no SDO client calls.
InitMux == Init /\ client.timeout = 0

MuxReceive == MuxReceiveUpTo(MaxRecvMux)
MuxReceiveFan == MuxReceiveUpTo(MaxRecvFan)

\* Subscribers come, consume and cancel while the Mux is closed by Close or
\* by a failing Receive.
NextMux ==
    \/ \E flt \in MuxFilters, buffer \in MuxBuffers : MuxSubscribe(flt, buffer)
    \/ \E id \in 0..(MaxSubs - 1) : ConsumerStep(id)
    \/ MuxReceive
    \/ ReaderTop
    \/ ReaderReceiveError
    \/ MuxCloseStop
    \/ MuxCloseSubs

SpecMux == InitMux /\ [][NextMux]_vars

\* Subscribers come and consume while the Mux keeps running.
NextFan ==
    \/ \E flt \in MuxFilters, buffer \in FanBuffers : MuxSubscribe(flt, buffer)
    \/ \E id \in 0..(MaxSubs - 1) : ConsumerDequeue(id) \/ ConsumerPark(id)
    \/ MuxReceiveFan
    \/ ReaderTop

SpecFan == InitMux /\ [][NextFan]_vars


\* The Mux under the scheduler's guarantees: the reader goroutine and the
\* caller of Close keep running when they can.  When the bus delivers a frame
\* or an error to the reader's Receive is up to the bus, and consumers are
\* free to do nothing.
SpecMuxFair ==
    /\ InitMux
    /\ [][NextMux]_vars
    /\ WF_vars(ReaderTop)
    /\ WF_vars(MuxCloseSubs)

\* Tasks that call Mux.Close, each at any time.
MaxClosers == 2

\* A task calls Close and runs its select: return nil when m.stop is closed,
\* go on to close(m.stop) otherwise.
MuxCloseEnter ==
    /\ Len(mc.pc) < MaxClosers
    /\ mc' = [mc EXCEPT !.pc = Append(@, IF stop THEN "returned" ELSE "signal")]
    /\ UNCHANGED <<client, sw, io, hb, call, hist, subs, chans, next, stop, reader, closer, nrecv, mx, lb>>

\* close(m.stop) of task t: a close of a closed channel panics.
MuxCloseSignal(t) ==
    /\ mc.pc[t] = "signal"
    /\ stop' = TRUE
    /\ mc' = [mc EXCEPT !.pc[t] = IF stop THEN "panicked" ELSE "drain",
                        !.closes = @ + 1,
                        !.panic = IF stop THEN "close of closed channel" ELSE @]
    /\ UNCHANGED <<client, sw, io, hb, call, hist, subs, chans, next, reader, closer, nrecv, mx, lb>>

\* The loop of task t over m.subs under m.mu.Lock, and return nil.
MuxCloseDrain(t) ==
    /\ mc.pc[t] = "drain"
    /\ CloseAllSubs
    /\ mc' = [mc EXCEPT !.pc[t] = "returned"]
    /\ UNCHANGED <<client, sw, io, hb, call, hist, next, stop, reader, closer, nrecv, mx, lb>>

\* Subscribers come and cancel while several tasks close the Mux and the
\* reader runs or fails; a panic ends the program.
Alive == mc.panic = "none"

NextClose ==
    \/ Alive /\ \E flt \in MuxFilters, buffer \in MuxBuffers : MuxSubscribe(flt, buffer)
    \/ Alive /\ \E id \in 0..(MaxSubs - 1) : MuxCancel(id)
    \/ Alive /\ MuxReceive
    \/ Alive /\ ReaderTop
    \/ Alive /\ ReaderReceiveError
    \/ Alive /\ MuxCloseEnter
    \/ Alive /\ \E t \in 1..MaxClosers : t <= Len(mc.pc) /\ MuxCloseSignal(t)
    \/ Alive /\ \E t \in 1..MaxClosers : t <= Len(mc.pc) /\ MuxCloseDrain(t)

SpecClose == InitMux /\ [][NextClose]_vars

\* ------------------------------------------------------------ LoopbackBus

\* Endpoints opened, Send calls made, and the capacity of an endpoint's queue
\* (64 in Open).
MaxEps == 3
MaxSends == 2
QueueCap == 1

maxStdID == 2047
maxExtID == 536870911
\* Validate that holds every identifier to the 29-bit limit.
ValidateExtLimitOnly(f) ==
    IF f.Len > 8 THEN "ErrInvalidLen"
    ELSE IF f.ID > maxExtID THEN "ErrInvalidID" ELSE "nil"

\* Frame.Validate: the error it returns, "nil" for none.
Validate(f) ==
    IF f.Len > 8 THEN "ErrInvalidLen"
    ELSE IF f.Extended
    THEN (IF f.ID > maxExtID THEN "ErrInvalidID" ELSE "nil")
    ELSE (IF f.ID > maxStdID THEN "ErrInvalidID" ELSE "nil")

\* The frames handed to Send: the k-th call sends MustFrame(0x320 + k, "hello"),
\* or a frame with Len 9, or a standard frame with identifier 0x800.
LoopFrame(k) ==
    [ID |-> 800 + k, Extended |-> FALSE, RTR |-> FALSE, Len |-> 5,
     Data |-> <<104, 101, 108, 108, 111, 0, 0, 0>>]
InvalidFrame(kind) ==
    IF kind = "len"
    THEN [LoopFrame(0) EXCEPT !.Len = 9]
    ELSE [LoopFrame(0) EXCEPT !.ID = maxStdID + 1]
FrameKinds == {"valid", "len", "id"}

\* &loopEndpoint{...} in Open: e.closed is closed at once when the bus is closed.
NewEndpoint(busClosed) ==
    [dead |-> FALSE, closed |-> busClosed, ch |-> [buf |-> <<>>, closed |-> FALSE],
     got |-> <<>>, err |-> FALSE]

Opened == 1..Len(lb.eps)
Running == lb.panic = "none"
\* The endpoint whose owner calls Send: the first one opened.
Senders == {1}
NotLoopback == <<client, sw, mc, io, hb, call, hist, subs, chans, next, stop, reader, closer, nrecv, mx>>

\* LoopbackBus.Open.
LoopbackBusOpen ==
    /\ Running
    /\ Len(lb.eps) < MaxEps
    /\ lb' = [lb EXCEPT
                !.eps = Append(@, NewEndpoint(lb.closed)),
                !.endpoints = IF lb.closed THEN @ ELSE @ \cup {Len(lb.eps) + 1}]
    /\ UNCHANGED NotLoopback

\* A faulty closeNoLock that detaches every endpoint from the bus.
closeNoLockDetachAll(l, e) ==
    IF l.panic # "none" \/ l.eps[e].dead THEN l
    ELSE IF l.eps[e].closed
    THEN [l EXCEPT !.eps[e].dead = TRUE, !.panic = "close of closed channel"]
    ELSE [l EXCEPT !.eps[e].dead = TRUE,
                   !.eps[e].closed = TRUE,
                   !.eps[e].ch.closed = TRUE,
                   !.endpoints = {}]

\* closeNoLock on endpoint e in the state l: nothing when dead; otherwise
\* dead = true, close(e.closed), close(e.ch), delete(endpoints, e).  Closing
\* e.closed a second time is a runtime panic.  The two closes are taken as
\* one step.
closeNoLock(l, e) ==
    IF l.panic # "none" \/ l.eps[e].dead THEN l
    ELSE IF l.eps[e].closed
    THEN [l EXCEPT !.eps[e].dead = TRUE, !.panic = "close of closed channel"]
    ELSE [l EXCEPT !.eps[e].dead = TRUE,
                   !.eps[e].closed = TRUE,
                   !.eps[e].ch.closed = TRUE,
                   !.endpoints = @ \ {e}]

RECURSIVE closeEach(_, _)
closeEach(l, S) ==
    IF S = {} THEN l
    ELSE LET e == CHOOSE x \in S : TRUE
         IN closeEach(closeNoLock(l, e), S \ {e})

\* LoopbackBus.Close, under b.mu.
LoopbackBusClose ==
    /\ Running
    /\ lb' = IF lb.closed THEN lb
             ELSE [closeEach([lb EXCEPT !.closed = TRUE], lb.endpoints) EXCEPT !.endpoints = {}]
    /\ UNCHANGED NotLoopback

\* loopEndpoint.Close, under b.mu.
loopEndpointClose(e) ==
    /\ Running
    /\ e \in Opened
    /\ lb' = closeNoLock(lb, e)
    /\ UNCHANGED NotLoopback

\* A faulty Send that looks at e.dead before it validates the frame.
loopEndpointSendDeadFirst(e, kind) ==
    /\ Running
    /\ e \in Opened
    /\ lb.snd.pc \in {"idle", "returned"}
    /\ lb.nsent < MaxSends
    /\ LET f == IF kind = "valid" THEN LoopFrame(lb.nsent + 1) ELSE InvalidFrame(kind)
           called == [NoSend EXCEPT !.ep = e, !.frame = f,
                                    !.deadAtStart = {x \in Opened : lb.eps[x].dead}]
       IN lb' = [lb EXCEPT
                   !.nsent = @ + 1,
                   !.snd = IF lb.eps[e].dead
                           THEN [called EXCEPT !.pc = "returned", !.res = "ErrClosed"]
                           ELSE IF Validate(f) # "nil"
                           THEN [called EXCEPT !.pc = "returned", !.res = Validate(f)]
                           ELSE [called EXCEPT !.pc = "snapshot"]]
    /\ UNCHANGED NotLoopback

\* Send(frame) up to the check of e.dead, with the next valid frame or with
\* an invalid one.
loopEndpointSend(e, kind) ==
    /\ Running
    /\ e \in Opened
    /\ lb.snd.pc \in {"idle", "returned"}
    /\ lb.nsent < MaxSends
    /\ LET f == IF kind = "valid" THEN LoopFrame(lb.nsent + 1) ELSE InvalidFrame(kind)
           called == [NoSend EXCEPT !.ep = e, !.frame = f,
                                    !.deadAtStart = {x \in Opened : lb.eps[x].dead}]
       IN lb' = [lb EXCEPT
                   !.nsent = @ + 1,
                   !.snd = IF Validate(f) # "nil"
                           THEN [called EXCEPT !.pc = "returned", !.res = Validate(f)]
                           ELSE IF lb.eps[e].dead
                           THEN [called EXCEPT !.pc = "returned", !.res = "ErrClosed"]
                           ELSE [called EXCEPT !.pc = "snapshot"]]
    /\ UNCHANGED NotLoopback

\* The orders in which range over the endpoints map can yield the set S.
RECURSIVE Orders(_)
Orders(S) ==
    IF S = {} THEN {<<>>}
    ELSE UNION {{<<x>> \o rest : rest \in Orders(S \ {x})} : x \in S}

\* A faulty snapshot that takes the sender as a target too.
TargetsWithSender(l) == l.endpoints

\* for ep := range e.bus.endpoints { if ep != e { targets = append(targets, ep) } }
Targets(l) == l.endpoints \ {l.snd.ep}

\* The snapshot of the other endpoints under b.mu.RLock.
loopEndpointSendSnapshot ==
    /\ Running
    /\ lb.snd.pc = "snapshot"
    /\ IF lb.closed
       THEN lb' = [lb EXCEPT !.snd.pc = "returned", !.snd.res = "ErrClosed"]
       ELSE \E targets \in Orders(Targets(lb)) :
               lb' = [lb EXCEPT
                        !.snd.targets = targets,
                        !.snd.snap = Targets(lb),
                        !.snd.pc = IF targets = <<>> THEN "returned" ELSE "deliver",
                        !.snd.res = IF targets = <<>> THEN "nil" ELSE "none"]
    /\ UNCHANGED NotLoopback

\* The sender after its select on the current target has completed.
NextTarget(l) ==
    [l EXCEPT !.snd.targets = Tail(@),
              !.snd.pc = IF Len(l.snd.targets) = 1 THEN "returned" ELSE "deliver",
              !.snd.res = IF Len(l.snd.targets) = 1 THEN "nil" ELSE "none"]

\* A faulty delivery that gives up on a target whose queue is full.
loopEndpointSendDeliverOrDrop ==
    /\ Running
    /\ lb.snd.pc = "deliver"
    /\ LET t == Head(lb.snd.targets)
           ep == lb.eps[t]
       IN \/ /\ ep.ch.closed
             /\ lb' = [lb EXCEPT !.panic = "send on closed channel", !.snd.pc = "panicked"]
          \/ /\ ~ep.ch.closed
             /\ Len(ep.ch.buf) < QueueCap
             /\ lb' = NextTarget([lb EXCEPT !.eps[t].ch.buf = Append(@, lb.snd.frame)])
          \/ /\ ep.closed \/ Len(ep.ch.buf) >= QueueCap
             /\ lb' = NextTarget(lb)
    /\ UNCHANGED NotLoopback

\* select { case t.ch <- frame: case <-t.closed: } on the current target.  A
\* ready case is chosen at random; the send case is ready when the queue has
\* room and also when t.ch is closed, and then it panics.  With no case ready
\* the sender blocks.
loopEndpointSendDeliver ==
    /\ Running
    /\ lb.snd.pc = "deliver"
    /\ LET t == Head(lb.snd.targets)
           ep == lb.eps[t]
       IN \/ /\ ep.ch.closed
             /\ lb' = [lb EXCEPT !.panic = "send on closed channel", !.snd.pc = "panicked"]
          \/ /\ ~ep.ch.closed
             /\ Len(ep.ch.buf) < QueueCap
             /\ lb' = NextTarget([lb EXCEPT !.eps[t].ch.buf = Append(@, lb.snd.frame)])
          \/ /\ ep.closed
             /\ lb' = NextTarget(lb)
    /\ UNCHANGED NotLoopback

\* loopEndpoint.Receive: f, ok := <-e.ch yields the queued frames, then
\* ok = false once the channel is closed; on an open empty channel it blocks.
loopEndpointReceive(e) ==
    /\ Running
    /\ e \in Opened
    /\ LET ep == lb.eps[e]
       IN IF ep.ch.buf # <<>>
          THEN lb' = [lb EXCEPT !.eps[e].ch.buf = Tail(@),
                                !.eps[e].got = Append(@, Head(ep.ch.buf))]
          ELSE /\ ep.ch.closed
               /\ lb' = [lb EXCEPT !.eps[e].err = TRUE]
    /\ UNCHANGED NotLoopback

NextLoop ==
    \/ LoopbackBusOpen
    \/ LoopbackBusClose
    \/ \E e \in 1..MaxEps : loopEndpointClose(e)
    \/ \E e \in Senders, kind \in FrameKinds : loopEndpointSend(e, kind)
    \/ loopEndpointSendSnapshot
    \/ loopEndpointSendDeliver
    \/ \E e \in 1..MaxEps : loopEndpointReceive(e)

SpecLoop == InitMux /\ [][NextLoop]_vars

\* ---------------------------------------------------- expedited transfers

\* Frames the reader receives in the runs about expedited transfers.
MaxRecvExp == 2

\* Payloads an expedited Download carries: 1 to 4 bytes.
ExpPayloads == {Payload(L) : L \in 1..4}

\* The four data bytes of an expedited upload response.
ExpTail == <<222, 173, 190, 239>>

\* Expedited upload responses for the requested object carrying k = 4 - n
\* bytes, with the command byte laid out as e in bit 3, s in bit 2, n in bits
\* 1..0 (0x4C..0x4F), and as n in bits 3..2, e in bit 1, s in bit 0
\* (0x43, 0x47, 0x4B, 0x4F), as servers in the field send it.
SrvExpeditedUploads ==
    {SrvInitiate(n, sdoSCSUploadInitiate * 32 + 8 + 4 + unused, o, ExpTail) :
        n \in ClientNodes, o \in ReqObjects, unused \in 0..3}
    \cup {SrvInitiate(n, sdoSCSUploadInitiate * 32 + 4 * unused + 2 + 1, o, ExpTail) :
        n \in ClientNodes, o \in ReqObjects, unused \in 0..3}

ExpFrames == SrvDownloadInitiateAcks \cup SrvExpeditedUploads

ReaderReceiveExp == ReaderReceiveFrom(ExpFrames, MaxRecvExp)

\* NewSDOClient with either expedited encoding selected.
InitExp ==
    /\ client \in [node : ClientNodes, timeout : Timeouts,
                   expeditedMode : {ExpeditedModeSpec, ExpeditedModeClassic}]
    /\ call = [c \in Callers |-> IdleCall]
    /\ hist = [c \in Callers |-> NoHist]
    /\ subs = NoSubs
    /\ chans = NoSubs
    /\ next = 0
    /\ stop = FALSE
    /\ reader = "top"
    /\ closer = "idle"
    /\ nrecv = 0
    /\ mx = NoMx
    /\ io = NoIo
    /\ hb = NoHb
    /\ sw = NoSw
    /\ mc = NoMc
    /\ lb = NoLb

NextExp ==
    \/ \E o \in ReqObjects, data \in ExpPayloads : InvokeDownload(MainCaller, o, data)
    \/ \E o \in ReqObjects : InvokeUpload(MainCaller, o)
    \/ CallStep(MainCaller)
    \/ ReaderTop
    \/ ReaderReceiveExp
    \/ ReaderReceiveError

SpecExp == InitExp /\ [][NextExp]_vars

\* ------------------------------------------------------------- Frame codec

\* canEffFlag 0x80000000 and canRtrFlag 0x40000000 as bits of the upper
\* half of can_id; canEffMask 0x1FFFFFFF as the mask of that half.
canEffFlagHi == 32768
canRtrFlagHi == 16384
canEffMaskHi == 8191
canStdMask == 2047

\* x & bit # 0 and x | bit, for a single bit.
HasBit(x, bit) == (x \div bit) % 2 = 1
SetBit(x, bit) == IF HasBit(x, bit) THEN x ELSE x + bit

\* var g Frame
ZeroCodecFrame == [ID |-> 0, Extended |-> FALSE, RTR |-> FALSE, Len |-> 0, Data |-> ZeroData]

\* MarshalBinary that leaves the RTR flag out of can_id.
MarshalBinaryNoRtr(f) ==
    IF Validate(f) # "nil" THEN [err |-> Validate(f), buf |-> <<>>]
    ELSE LET id0 == Wide(f.ID)
             id1 == IF f.Extended THEN [id0 EXCEPT !.hi = SetBit(@, canEffFlagHi)] ELSE id0
         IN  [err |-> "nil", buf |-> PutUint32(id1) \o <<f.Len, 0, 0, 0>> \o f.Data]

\* Frame.MarshalBinary as [err, buf]: the 16 bytes of struct can_frame.
MarshalBinary(f) ==
    IF Validate(f) # "nil" THEN [err |-> Validate(f), buf |-> <<>>]
    ELSE LET id0 == Wide(f.ID)
             id1 == IF f.Extended THEN [id0 EXCEPT !.hi = SetBit(@, canEffFlagHi)] ELSE id0
             id2 == IF f.RTR THEN [id1 EXCEPT !.hi = SetBit(@, canRtrFlagHi)] ELSE id1
         IN  [err |-> "nil", buf |-> PutUint32(id2) \o <<f.Len, 0, 0, 0>> \o f.Data]

\* Frame.UnmarshalBinary on a zero receiver, as [err, f].
UnmarshalBinary(data) ==
    IF Len(data) < 16 THEN [err |-> "need 16 bytes", f |-> ZeroCodecFrame]
    ELSE LET id  == Uint32(data[1], data[2], data[3], data[4])
             ext == HasBit(id.hi, canEffFlagHi)
             f   == [ID |-> IF ext THEN (id.hi % (canEffMaskHi + 1)) * 65536 + id.lo
                                   ELSE id.lo % (canStdMask + 1),
                     Extended |-> ext,
                     RTR |-> HasBit(id.hi, canRtrFlagHi),
                     Len |-> data[5],
                     Data |-> SubSeq(data, 9, 16)]
         IN  [err |-> Validate(f), f |-> f]

\* Frames handed to the codec: identifiers at both limits and one past
\* them, every flag combination, lengths up to one past the maximum.
CodecIDs == {0, 291, maxStdID, maxStdID + 1, 448585471, maxExtID, maxExtID + 1}
CodecLens == {0, 4, 8, 9}
CodecData == {ZeroData, <<1, 2, 3, 4, 0, 0, 0, 0>>, <<255, 254, 253, 252, 251, 250, 249, 128>>}
CodecFrames ==
    [ID : CodecIDs, Extended : BOOLEAN, RTR : BOOLEAN, Len : CodecLens, Data : CodecData]
BufLens == {15, 16}

\* f.Validate() on the frame drawn.
CallValidate ==
    /\ io.op = "Frame"
    /\ io' = [op |-> "Validate", arg |-> io.arg, res |-> Validate(io.arg)]
    /\ UNCHANGED <<client, sw, mc, hb, call, hist, subs, chans, next, stop, reader, closer, nrecv, mx, lb>>

\* b, err := f.MarshalBinary() on the frame drawn.
CallMarshalBinary ==
    /\ io.op = "Frame"
    /\ io' = [op |-> "MarshalBinary", arg |-> io.arg, res |-> MarshalBinary(io.arg)]
    /\ UNCHANGED <<client, sw, mc, hb, call, hist, subs, chans, next, stop, reader, closer, nrecv, mx, lb>>

\* g.UnmarshalBinary(b[:n]) on the bytes the last MarshalBinary returned.
CallUnmarshalBinary(n) ==
    /\ io.op = "MarshalBinary"
    /\ io.res.err = "nil"
    /\ LET data == SubSeq(io.res.buf, 1, n)
       IN  io' = [op |-> "UnmarshalBinary",
                  arg |-> [f |-> io.arg, data |-> data],
                  res |-> UnmarshalBinary(data)]
    /\ UNCHANGED <<client, sw, mc, hb, call, hist, subs, chans, next, stop, reader, closer, nrecv, mx, lb>>

\* Function codes and node ids handed to COBID: every function code, and
\* every node id from broadcast to one past the last valid one, and 255.
FunctionCodes ==
    {FC_NMT, FC_SYNC, FC_TIME, FC_EMCY, FC_TPDO1, FC_RPDO1, FC_TPDO2, FC_RPDO2,
     FC_TPDO3, FC_RPDO3, FC_TPDO4, FC_RPDO4, FC_SDO_TX, FC_SDO_RX, FC_NMT_ERRCTRL}
NodeIDs == 0..128 \cup {255}

\* id := COBID(fc, node) on the function code and node id drawn.
CallCOBID ==
    /\ io.op = "FunctionCode"
    /\ io' = [op |-> "COBID", arg |-> io.arg, res |-> COBID(io.arg.fc, io.arg.node)]
    /\ UNCHANGED <<client, sw, mc, hb, call, hist, subs, chans, next, stop, reader, closer, nrecv, mx, lb>>

\* ParseCOBID(id) on the identifier the last COBID returned.
CallParseCOBID ==
    /\ io.op = "COBID"
    /\ io' = [op |-> "ParseCOBID",
              arg |-> [fc |-> io.arg.fc, node |-> io.arg.node, id |-> io.res],
              res |-> ParseCOBID(io.res)]
    /\ UNCHANGED <<client, sw, mc, hb, call, hist, subs, chans, next, stop, reader, closer, nrecv, mx, lb>>

\* SYNC.UnmarshalCANFrame as [err, counter]; counter is <<>> for nil.
SYNCUnmarshalCANFrame(f) ==
    LET p == ParseCOBID(f.ID)
    IN  IF ~p.ok THEN [err |-> "invalid id", counter |-> <<>>]
        ELSE IF p.fc # FC_SYNC THEN [err |-> "not a SYNC frame", counter |-> <<>>]
        ELSE IF f.Len = 0 THEN [err |-> "nil", counter |-> <<>>]
        ELSE IF f.Len = 1 THEN [err |-> "nil", counter |-> <<f.Data[1]>>]
        ELSE [err |-> "SYNC length invalid", counter |-> <<>>]

\* Frames handed to SYNC.UnmarshalCANFrame: the SYNC identifier, its
\* neighbours, the EMCY range, other services and one past 11 bits.
SyncIDs == {0, 127, 128, 129, 200, 255, 256, 384, 1792, maxStdID, maxStdID + 1}
SyncLens == {0, 1, 2, 8}
SyncFrames ==
    [ID : SyncIDs, Extended : {FALSE}, RTR : {FALSE}, Len : SyncLens,
     Data : {ZeroData, <<7, 0, 0, 0, 0, 0, 0, 0>>}]

\* err := s.UnmarshalCANFrame(f) on the frame drawn.
CallSYNCUnmarshalCANFrame ==
    /\ io.op = "SYNCFrame"
    /\ io' = [op |-> "SYNC.UnmarshalCANFrame", arg |-> io.arg,
              res |-> SYNCUnmarshalCANFrame(io.arg)]
    /\ UNCHANGED <<client, sw, mc, hb, call, hist, subs, chans, next, stop, reader, closer, nrecv, mx, lb>>

\* Download(0x2000, 1, data) up to its first Subscribe, with the payload
\* drawn: the request is built by the client's encoding mode.
CallDownloadStart ==
    /\ io.op = "Payload"
    /\ io' = [op |-> "Download", arg |-> io.arg,
              res |-> DownloadStart(IdleCall, 8192, 1, io.arg)]
    /\ UNCHANGED <<client, sw, mc, hb, call, hist, subs, chans, next, stop, reader, closer, nrecv, mx, lb>>

\* The argument of the calls: a frame for the codec, a function code and
\* node id, a frame for SYNC, or a payload of at most four bytes.
ShortLens == 0..4
CodecInputs ==
    {[op |-> "Frame", arg |-> f, res |-> <<>>] : f \in CodecFrames}
    \cup {[op |-> "FunctionCode", arg |-> a, res |-> <<>>] :
              a \in [fc : FunctionCodes, node : NodeIDs]}
    \cup {[op |-> "SYNCFrame", arg |-> f, res |-> <<>>] : f \in SyncFrames}
    \cup {[op |-> "Payload", arg |-> Payload(L), res |-> <<>>] : L \in ShortLens}

InitCodec ==
    /\ client \in [node : ClientNodes, timeout : {0},
                   expeditedMode : {ExpeditedModeSpec, ExpeditedModeClassic}]
    /\ io \in CodecInputs
    /\ call = [c \in Callers |-> IdleCall]
    /\ hist = [c \in Callers |-> NoHist]
    /\ subs = NoSubs
    /\ chans = NoSubs
    /\ next = 0
    /\ stop = FALSE
    /\ reader = "top"
    /\ closer = "idle"
    /\ nrecv = 0
    /\ mx = NoMx
    /\ hb = NoHb
    /\ sw = NoSw
    /\ mc = NoMc
    /\ lb = NoLb

NextCodec ==
    \/ CallValidate
    \/ CallMarshalBinary
    \/ \E n \in BufLens : CallUnmarshalBinary(n)
    \/ CallCOBID
    \/ CallParseCOBID
    \/ CallSYNCUnmarshalCANFrame
    \/ CallDownloadStart

SpecCodec == InitCodec /\ [][NextCodec]_vars

\* ------------------------------------------------------ SubscribeHeartbeats

\* Frames the bus delivers while heartbeats are subscribed.
MaxRecvHb == 2

\* parseHeartbeat as [ok, node, state].
parseHeartbeat(f) ==
    LET p == ParseCOBID(f.ID)
    IN  IF f.Len < 1 \/ ~p.ok \/ p.fc # FC_NMT_ERRCTRL
        THEN [ok |-> FALSE, node |-> 0, state |-> 0]
        ELSE [ok |-> TRUE, node |-> p.node, state |-> f.Data[1]]

\* Heartbeats of nodes 5 and 6 (operational, pre-operational), a boot-up
\* frame without its byte, and an EMCY frame.
HbFrames ==
    {[ID |-> COBID(FC_NMT_ERRCTRL, 5), Len |-> 1, Data |-> <<5, 0, 0, 0, 0, 0, 0, 0>>],
     [ID |-> COBID(FC_NMT_ERRCTRL, 6), Len |-> 1, Data |-> <<127, 0, 0, 0, 0, 0, 0, 0>>],
     [ID |-> COBID(FC_NMT_ERRCTRL, 5), Len |-> 0, Data |-> ZeroData],
     [ID |-> COBID(FC_EMCY, 5), Len |-> 8, Data |-> ZeroData]}
\* nodeFilter: nil or node 5; buffer: 0, 1, and a negative one.
HbNodeFilters == {NoNode, 5}
HbBuffers == {-1, 0, 1}

\* The goroutine after f came out of range frames: parse, continue on an
\* error, else go to out <- Heartbeat{...}.
Ranged(f) ==
    LET h == parseHeartbeat(f)
    IN  IF h.ok THEN [hb EXCEPT !.pc = "send", !.held = <<[Node |-> h.node, State |-> h.state]>>]
        ELSE [hb EXCEPT !.pc = "range"]

\* SubscribeHeartbeats(mux, nodeFilter, buffer): mux.Subscribe, make(chan
\* Heartbeat, buffer), which panics for a negative buffer, and go func().
SubscribeHeartbeats(nodeFilter, buffer) ==
    /\ hb.pc = "none"
    /\ next < MaxSubs
    /\ subs' = With(subs, next, [filter |-> Filter("hb", nodeFilter, 0, 0, 0)])
    /\ chans' = With(chans, next, MakeChan(buffer))
    /\ next' = next + 1
    /\ hb' = IF buffer < 0
             THEN [hb EXCEPT !.pc = "panicked", !.sub = next]
             ELSE [hb EXCEPT !.pc = "range", !.sub = next, !.out.cap = buffer]
    /\ UNCHANGED <<client, sw, mc, io, call, hist, stop, reader, closer, nrecv, mx, lb>>

\* The goroutine: for f := range frames { ...; out <- h }, defer close(out).
HbForward ==
    \/ \* range takes a buffered frame
       /\ hb.pc = "range"
       /\ chans[hb.sub].buf # <<>>
       /\ chans' = [chans EXCEPT ![hb.sub].buf = Tail(@)]
       /\ hb' = Ranged(Head(chans[hb.sub].buf))
       /\ UNCHANGED <<client, sw, mc, io, call, hist, subs, next, stop, reader, closer, nrecv, mx, lb>>
    \/ \* range blocks on the open unbuffered channel
       /\ hb.pc = "range"
       /\ chans[hb.sub].cap = 0
       /\ ~chans[hb.sub].closed
       /\ hb' = [hb EXCEPT !.pc = "parked"]
       /\ UNCHANGED <<client, sw, mc, io, call, hist, subs, chans, next, stop, reader, closer, nrecv, mx, lb>>
    \/ \* frames is closed and drained: the loop ends and out is closed
       /\ hb.pc \in {"range", "parked"}
       /\ chans[hb.sub].closed
       /\ chans[hb.sub].buf = <<>>
       /\ hb' = [hb EXCEPT !.pc = "done", !.out.closed = TRUE]
       /\ UNCHANGED <<client, sw, mc, io, call, hist, subs, chans, next, stop, reader, closer, nrecv, mx, lb>>
    \/ \* out <- h: to the waiting consumer, or into the buffer when it has room
       /\ hb.pc = "send"
       /\ hb.waiting \/ Len(hb.out.buf) < hb.out.cap
       /\ hb' = IF hb.waiting
                THEN [hb EXCEPT !.pc = "range", !.held = <<>>, !.waiting = FALSE]
                ELSE [hb EXCEPT !.pc = "range", !.held = <<>>, !.out.buf = @ \o hb.held]
       /\ UNCHANGED <<client, sw, mc, io, call, hist, subs, chans, next, stop, reader, closer, nrecv, mx, lb>>

\* The consumer of the returned channel, when it reads: h, ok := <-out.
HbConsume ==
    \/ \* a buffered heartbeat
       /\ hb.out.buf # <<>>
       /\ hb' = [hb EXCEPT !.out.buf = Tail(@)]
       /\ UNCHANGED <<client, sw, mc, io, call, hist, subs, chans, next, stop, reader, closer, nrecv, mx, lb>>
    \/ \* nothing buffered, out open: the consumer blocks
       /\ hb.pc \notin {"none", "panicked"}
       /\ hb.out.buf = <<>>
       /\ ~hb.out.closed
       /\ ~hb.waiting
       /\ hb' = [hb EXCEPT !.waiting = TRUE]
       /\ UNCHANGED <<client, sw, mc, io, call, hist, subs, chans, next, stop, reader, closer, nrecv, mx, lb>>
    \/ \* the blocked receive yields ok = false
       /\ hb.waiting
       /\ hb.out.closed
       /\ hb' = [hb EXCEPT !.waiting = FALSE]
       /\ UNCHANGED <<client, sw, mc, io, call, hist, subs, chans, next, stop, reader, closer, nrecv, mx, lb>>

\* m.bus.Receive() returns a frame: it goes to the goroutine blocked in
\* range on an unbuffered channel, or is fanned out to the buffers.
MuxReceiveHb ==
    /\ reader = "recv"
    /\ nrecv < MaxRecvHb
    /\ \E f \in HbFrames :
          IF hb.pc = "parked" /\ Accepts(hb.sub, f)
          THEN hb' = Ranged(f) /\ chans' = chans
          ELSE hb' = hb /\ chans' = Dispatched(f)
    /\ reader' = "top"
    /\ nrecv' = nrecv + 1
    /\ UNCHANGED <<client, sw, mc, io, call, hist, subs, next, stop, closer, mx, lb>>

\* One heartbeat subscription with its consumer, which reads or not and
\* cancels when it wants, while the Mux runs and is closed or fails.
NextHb ==
    \/ \E nodeFilter \in HbNodeFilters, buffer \in HbBuffers :
           SubscribeHeartbeats(nodeFilter, buffer)
    \/ HbForward
    \/ HbConsume
    \/ \E id \in 0..(MaxSubs - 1) : MuxCancel(id)
    \/ MuxReceiveHb
    \/ ReaderTop
    \/ ReaderReceiveError
    \/ MuxCloseStop
    \/ MuxCloseSubs

\* The scheduler keeps the forwarding goroutine, the reader and the caller
\* of Close running when they can; the bus and the consumer are free.
SpecHb ==
    /\ InitMux
    /\ [][NextHb]_vars
    /\ WF_vars(HbForward)
    /\ WF_vars(ReaderTop)
    /\ WF_vars(MuxCloseSubs)

\* --------------------------------------------------------------- SYNCWriter

\* Start calls and ticker intervals of a run.
MaxStarts == 2
MaxTicks == 3

\* The frame run() builds: COBID(FC_SYNC, 0), with counter & 0x7F when
\* withCounter; recorded with the interval it was sent in.
SyncFrame(counter) ==
    IF sw.withCounter
    THEN [ID |-> COBID(FC_SYNC, 0), Len |-> 1, Data |-> <<counter % 128, 0, 0, 0, 0, 0, 0, 0>>]
    ELSE [ID |-> COBID(FC_SYNC, 0), Len |-> 0, Data |-> ZeroData]

\* SYNCWriter.Start: w.stop is not nil after NewSYNCWriter; go w.run(), which
\* makes its ticker and starts its counter at 0.
SYNCWriterStart ==
    /\ Len(sw.runs) < MaxStarts
    /\ sw' = [sw EXCEPT !.runs = Append(@, [pc |-> "loop", counter |-> 0, tick |-> FALSE])]
    /\ UNCHANGED <<client, io, hb, mc, call, hist, subs, chans, next, stop, reader, closer, nrecv, mx, lb>>

\* SYNCWriter.Stop: close(w.stop) unless it is closed already.
SYNCWriterStop ==
    /\ sw' = [sw EXCEPT !.stop = TRUE]
    /\ UNCHANGED <<client, io, hb, mc, call, hist, subs, chans, next, stop, reader, closer, nrecv, mx, lb>>

\* One interval elapses: the ticker of every running goroutine has a tick
\* ready on its channel.
SYNCTick ==
    /\ sw.now < MaxTicks
    /\ sw' = [sw EXCEPT !.now = @ + 1,
                        !.runs = [i \in DOMAIN @ |->
                                     IF @[i].pc = "loop" THEN [@[i] EXCEPT !.tick = TRUE]
                                     ELSE @[i]]]
    /\ UNCHANGED <<client, io, hb, mc, call, hist, subs, chans, next, stop, reader, closer, nrecv, mx, lb>>

\* The select of run() in goroutine i: return on the closed stop, or take
\* the tick, send the frame and advance the counter; either when both are ready.
SYNCWriterRun(i) ==
    /\ i \in DOMAIN sw.runs
    /\ sw.runs[i].pc = "loop"
    /\ \/ /\ sw.stop
          /\ sw' = [sw EXCEPT !.runs[i].pc = "exited"]
       \/ /\ sw.runs[i].tick
          /\ sw' = [sw EXCEPT
                      !.runs[i].tick = FALSE,
                      !.runs[i].counter = IF sw.withCounter THEN (@ + 1) % 128 ELSE @,
                      !.log = Append(@, [at |-> sw.now, f |-> SyncFrame(sw.runs[i].counter)])]
    /\ UNCHANGED <<client, io, hb, mc, call, hist, subs, chans, next, stop, reader, closer, nrecv, mx, lb>>

InitSync ==
    /\ client \in [node : ClientNodes, timeout : {0}, expeditedMode : {ExpeditedModeSpec}]
    /\ sw \in {[NoSw EXCEPT !.withCounter = b] : b \in BOOLEAN}
    /\ mc = NoMc
    /\ io = NoIo
    /\ hb = NoHb
    /\ call = [c \in Callers |-> IdleCall]
    /\ hist = [c \in Callers |-> NoHist]
    /\ subs = NoSubs
    /\ chans = NoSubs
    /\ next = 0
    /\ stop = FALSE
    /\ reader = "top"
    /\ closer = "idle"
    /\ nrecv = 0
    /\ mx = NoMx
    /\ lb = NoLb

NextSync ==
    \/ SYNCWriterStart
    \/ SYNCWriterStop
    \/ SYNCTick
    \/ \E i \in 1..MaxStarts : SYNCWriterRun(i)

SpecSync == InitSync /\ [][NextSync]_vars

\* ---------------------------------------------------------------- claims

\* Bit k of byte b, and the pieces of a frame the claims speak of.
Bit(b, k) == (b \div (2 ^ k)) % 2
Spec3(f) == (f.Data[1] \div 32) % 8
IsSegmentedDownload(c) == call[c].op = "Download" /\ Len(call[c].data) > 4
Returned(c) == call[c].pc = "done"
Succeeded(c) == call[c].pc \in {"unwind", "done"} /\ call[c].result.kind = "nil"
NumSegments(L) == (L + 6) \div 7

\* Payload bytes a segment frame carries: 7, or 7 - n when c = 1.
CarriedLen(f) == IF Bit(f.Data[1], 0) = 1 THEN 7 - ((f.Data[1] \div 2) % 8) ELSE 7
Carried(f) == SubSeq(f.Data, 2, 1 + CarriedLen(f))
RECURSIVE ConcatCarried(_)
ConcatCarried(frames) ==
    IF frames = <<>> THEN <<>> ELSE Carried(Head(frames)) \o ConcatCarried(Tail(frames))

\* The download-initiate of a payload of L bytes: id 0x600+node, CCS=1, e=0,
\* s=1, index/subindex, L little-endian in bytes 4..7.
IsDownloadInitiateFor(f, cr) ==
    /\ f.ID = 1536 + client.node /\ f.Len = 8
    /\ Spec3(f) = 1 /\ Bit(f.Data[1], 3) = 0 /\ Bit(f.Data[1], 2) = 1
    /\ f.Data[2] + 256 * f.Data[3] = cr.index /\ f.Data[4] = cr.subindex
    /\ f.Data[5] + 256 * f.Data[6] + 65536 * f.Data[7] = Len(cr.data) /\ f.Data[8] = 0

\* The k-th download segment (k from 0) of the payload.
IsDownloadSegmentFor(f, cr, k) ==
    LET L == Len(cr.data)
        n == Min(7, L - 7 * k)
        final == k = NumSegments(L) - 1
    IN /\ f.ID = 1536 + client.node /\ f.Len = 8
       /\ Spec3(f) = 0
       /\ Bit(f.Data[1], 4) = k % 2
       /\ \A i \in 1..n : f.Data[1 + i] = cr.data[7 * k + i]
       /\ Bit(f.Data[1], 0) = (IF final THEN 1 ELSE 0)
       /\ final => (f.Data[1] \div 2) % 8 = 7 - n

\* C1: a segmented Download (payload longer than 4 bytes) sends one
\* download-initiate (e=0, s=1, length little-endian) and then the download
\* segments in order: segment k has toggle k mod 2 and the next min(7,
\* remaining) payload bytes, only the last has c=1 with n = 7 - its length;
\* a Download that succeeds has sent exactly ceil(L/7) segments whose payloads
\* concatenate to the payload.
C1_SegmentedDownloadFrames ==
    \A c \in Callers : IsSegmentedDownload(c) =>
        LET cr == call[c]
            log == hist[c].sentLog
            nseg == NumSegments(Len(cr.data))
        IN /\ Len(log) <= 1 + nseg
           /\ Len(log) >= 1 => IsDownloadInitiateFor(log[1], cr)
           /\ \A j \in 2..Len(log) : IsDownloadSegmentFor(log[j], cr, j - 2)
           /\ Succeeded(c) =>
                 /\ Len(log) = 1 + nseg
                 /\ ConcatCarried(Tail(log)) = cr.data

\* A 15-byte Download has succeeded: three segments, toggles 0, 1, 0.
C1_Witness ==
    \E c \in Callers :
        /\ IsSegmentedDownload(c) /\ Returned(c) /\ Succeeded(c)
        /\ Len(call[c].data) > 14 /\ Len(call[c].data) % 7 # 0

\* The response that answered the j-th frame a call sent.
IsDownloadInitiateAckFor(f, cr) ==
    /\ f.ID = 1408 + client.node /\ f.Len = 8 /\ Spec3(f) = 3
    /\ f.Data[2] + 256 * f.Data[3] = cr.index /\ f.Data[4] = cr.subindex
IsDownloadSegAckOf(f, seg) ==
    /\ f.ID = 1408 + client.node /\ f.Len = 8 /\ Spec3(f) = 1
    /\ Bit(f.Data[1], 4) = Bit(seg.Data[1], 4)

\* C2: segmented Download is stop-and-wait: the first segment is sent only
\* after the download-initiate acknowledgement (SCS=3, same index/subindex)
\* was received, segment k+1 only after a download-segment acknowledgement
\* (SCS=1) with the toggle of segment k, and Download succeeds only after the
\* last segment was acknowledged.
C2_DownloadStopAndWait ==
    \A c \in Callers : IsSegmentedDownload(c) =>
        LET cr == call[c]
            log == hist[c].sentLog
            rcv == hist[c].rcvLog
        IN /\ Len(log) <= Len(rcv) + 1
           /\ Len(log) >= 2 => IsDownloadInitiateAckFor(rcv[1], cr)
           /\ \A j \in 3..Len(log) : IsDownloadSegAckOf(rcv[j - 1], log[j - 1])
           /\ Succeeded(c) =>
                 /\ Len(rcv) = Len(log)
                 /\ Len(log) >= 2
                 /\ IsDownloadSegAckOf(rcv[Len(rcv)], log[Len(log)])

\* A Download of two segments or more has succeeded.
C2_Witness ==
    \E c \in Callers :
        /\ IsSegmentedDownload(c) /\ Returned(c) /\ Succeeded(c)
        /\ Len(hist[c].rcvLog) >= 3

IsSegmentedUpload(c) == call[c].op = "Upload" /\ Len(hist[c].sentLog) >= 2

\* The upload request frames: initiate (CCS=2) and segment request (CCS=3).
IsUploadInitiateFor(f, cr) ==
    /\ f.ID = 1536 + client.node /\ f.Len = 8 /\ Spec3(f) = 2
    /\ f.Data[2] + 256 * f.Data[3] = cr.index /\ f.Data[4] = cr.subindex
IsUploadSegmentRequest(f, k) ==
    /\ f.ID = 1536 + client.node /\ f.Len = 8 /\ Spec3(f) = 3
    /\ Bit(f.Data[1], 4) = k % 2

\* The upload-initiate response that opens a segmented transfer, and the
\* upload-segment response to the k-th request.
IsSegmentedUploadInitiateFor(f, cr) ==
    /\ f.ID = 1408 + client.node /\ f.Len = 8 /\ Spec3(f) = 2
    /\ Bit(f.Data[1], 1) = 0
    /\ f.Data[2] + 256 * f.Data[3] = cr.index /\ f.Data[4] = cr.subindex
IsUploadSegmentResponse(f, k) ==
    /\ f.ID = 1408 + client.node /\ f.Len = 8 /\ Spec3(f) = 0
    /\ Bit(f.Data[1], 4) = k % 2

\* The segment responses a call has consumed: everything after the initiate
\* response.
SegmentResponses(c) == Tail(hist[c].rcvLog)

\* C3: a segmented Upload answers a segmented upload-initiate response (e=0,
\* same index/subindex) with upload-segment requests (CCS=3) whose toggles are
\* 0, 1, 0, ...; each is answered by an upload-segment response (SCS=0) with
\* the same toggle before the next is sent; the transfer stops at the first
\* response with c=1, and the returned data are bytes 1..7 of every response
\* with c=0 followed by bytes 1..7-n of the one with c=1.
C3_SegmentedUpload ==
    \A c \in Callers : IsSegmentedUpload(c) =>
        LET cr == call[c]
            log == hist[c].sentLog
            rcv == hist[c].rcvLog
        IN /\ IsUploadInitiateFor(log[1], cr)
           /\ Len(rcv) >= 1 /\ IsSegmentedUploadInitiateFor(rcv[1], cr)
           /\ Len(log) <= Len(rcv) + 1
           /\ \A j \in 2..Len(log) : IsUploadSegmentRequest(log[j], j - 2)
           /\ \A j \in 2..Len(log) - 1 :
                 /\ IsUploadSegmentResponse(rcv[j], j - 2)
                 /\ Bit(rcv[j].Data[1], 0) = 0
           /\ cr.pc \in {"unwind", "done"} /\ cr.result.kind = "nil" =>
                 /\ Len(rcv) = Len(log)
                 /\ IsUploadSegmentResponse(rcv[Len(rcv)], Len(rcv) - 2)
                 /\ Bit(rcv[Len(rcv)].Data[1], 0) = 1
                 /\ cr.result.data = ConcatCarried(SegmentResponses(c))

\* An Upload of three segments has returned its data; the middle response
\* carries stray n bits with c = 0.
C3_Witness ==
    \E c \in Callers :
        /\ IsSegmentedUpload(c) /\ Returned(c) /\ call[c].result.kind = "nil"
        /\ Len(hist[c].rcvLog) >= 4
        /\ \E j \in 2..Len(hist[c].rcvLog) - 1 :
              (hist[c].rcvLog[j].Data[1] \div 2) % 8 # 0

\* The size an upload-initiate response declares (bytes 4..7, little-endian,
\* unsigned) equals n.
DeclaresSize(f) == Bit(f.Data[1], 2) = 1
DeclaredSizeIs(f, n) ==
    /\ f.Data[5] + 256 * f.Data[6] = n
    /\ f.Data[7] = 0 /\ f.Data[8] = 0

\* The call has consumed the response with c = 1 that ends its transfer.
FinalSegmentArrived(c) ==
    LET rcv == hist[c].rcvLog
    IN /\ IsSegmentedUpload(c)
       /\ call[c].pc \in {"unwind", "done"}
       /\ Len(rcv) = Len(hist[c].sentLog)
       /\ Spec3(rcv[Len(rcv)]) = 0 /\ Bit(rcv[Len(rcv)].Data[1], 0) = 1

\* C4: when the final segment (c=1) of a segmented Upload arrives, a declared
\* size (s=1) that differs from the number of bytes accumulated makes Upload
\* fail with the size-mismatch error and no data; with no declared size (s=0)
\* Upload succeeds with the bytes accumulated.
C4_UploadSizeReconciliation ==
    \A c \in Callers : FinalSegmentArrived(c) =>
        LET first == hist[c].rcvLog[1]
            got == ConcatCarried(SegmentResponses(c))
            res == call[c].result
        IN /\ DeclaresSize(first) /\ ~DeclaredSizeIs(first, Len(got)) =>
                 res.kind = "ProtoErr" /\ res.data = <<>>
           /\ ~DeclaresSize(first) => res.kind = "nil" /\ res.data = got

\* f is an abort (SCS=4) from the client's node for the call's index/subindex.
IsAbortFor(f, cr) ==
    /\ f.ID = 1408 + client.node /\ f.Len = 8 /\ Spec3(f) = 4
    /\ f.Data[2] + 256 * f.Data[3] = cr.index /\ f.Data[4] = cr.subindex
Waiting(c) == call[c].pc = "wait"
Registered(id) == id \in DOMAIN subs /\ id \in DOMAIN chans

\* C5: in every phase of Download and Upload an abort (SCS=4) from the target
\* node for the call's index/subindex is accepted by the filter the call waits
\* with, and once the call has taken it from its queue the call ends with an
\* SDOAbort whose Index, Subindex and Code are bytes 1..2, byte 3 and bytes
\* 4..7 (little-endian) of the frame; it is the last frame the call receives
\* and no request is sent after it.
C5_AbortEndsCall ==
    \A c \in Callers :
        LET cr == call[c]
            rcv == hist[c].rcvLog
        IN /\ Waiting(c) /\ Registered(WaitChan(cr)) =>
                 \A f \in ServerFrames :
                     IsAbortFor(f, cr) => Matches(subs[WaitChan(cr)].filter, f)
           /\ \A j \in 1..Len(rcv) : IsAbortFor(rcv[j], cr) =>
                 /\ j = Len(rcv)
                 /\ Len(hist[c].sentLog) = j
                 /\ cr.pc \in {"cancelseg", "unwind", "done"}
                 /\ cr.pc # "cancelseg" =>
                       /\ cr.result.kind = "SDOAbort"
                       /\ cr.result.Index = rcv[j].Data[2] + 256 * rcv[j].Data[3]
                       /\ cr.result.Subindex = rcv[j].Data[4]
                       /\ cr.result.Code.lo = rcv[j].Data[5] + 256 * rcv[j].Data[6]
                       /\ cr.result.Code.hi = rcv[j].Data[7] + 256 * rcv[j].Data[8]
                       /\ cr.result.data = <<>>

\* A call was aborted in its segment phase with code 0x06020000.
C5_Witness ==
    \E c \in Callers :
        /\ Returned(c) /\ call[c].result.kind = "SDOAbort"
        /\ call[c].phase \in {"seg", "upseg"}
        /\ call[c].result.Index = call[c].index
        /\ call[c].result.Code = [hi |-> 1538, lo |-> 0]
        /\ IsAbortFor(hist[c].rcvLog[Len(hist[c].rcvLog)], call[c])

\* No frame of the log is an abort request (CCS=4).
NoAbortSent(log) == \A j \in 1..Len(log) : Spec3(log[j]) # 4
\* No subscription or channel the call created is left in the Mux.
NothingLeft(c) ==
    /\ hist[c].created \cap DOMAIN subs = {}
    /\ hist[c].created \cap DOMAIN chans = {}

\* C6: a wait that ends by timeout happens only with a timeout > 0, makes the
\* call return ErrClosed with one request unanswered, leaves no subscription
\* of the call behind, and puts no abort (nor any other frame) on the bus.
C6_TimeoutReturnsErrClosed ==
    \A c \in Callers : hist[c].why = "timeout" =>
        LET cr == call[c]
        IN /\ client.timeout > 0
           /\ cr.pc \in {"cancelseg", "unwind", "done"}
           /\ cr.pc = "cancelseg" => cr.err = "ErrClosed"
           /\ cr.pc # "cancelseg" => cr.result.kind = "ErrClosed" /\ cr.result.data = <<>>
           /\ Len(hist[c].sentLog) = Len(hist[c].rcvLog) + 1
           /\ NoAbortSent(hist[c].sentLog)
           /\ cr.req = hist[c].sentLog[Len(hist[c].sentLog)]
           /\ Returned(c) => NothingLeft(c)

\* A segmented call has timed out on a later request and returned, the Mux
\* still running.
C6_Witness ==
    \E c \in Callers :
        /\ hist[c].why = "timeout" /\ Returned(c)
        /\ Len(hist[c].sentLog) >= 3
        /\ closer = "idle" /\ reader # "failed"

\* A step in which the Mux shuts its subscribers: Close, or the reader's
\* failed Receive.
MuxShuts == (closer # "closed" /\ closer' = "closed") \/ (reader # "failed" /\ reader' = "failed")
\* The call's step out of a wait ends in ErrClosed.
EndsInErrClosed(new) ==
    \/ new.pc = "cancelseg" /\ new.err = "ErrClosed"
    \/ new.pc = "unwind" /\ new.result.kind = "ErrClosed" /\ new.result.data = <<>>

\* C7: when the Mux is closed or its reader fails on Receive while a call
\* waits, the channel the call waits on is closed in that step; and a call
\* waiting on a closed, empty channel can only go on by returning ErrClosed,
\* whatever the timeout, 0 included.
C7_MuxClosureReturnsErrClosed ==
    [][\A c \in Callers : Waiting(c) =>
          LET id == WaitChan(call[c])
          IN /\ MuxShuts => /\ id \in DOMAIN chans' /\ chans'[id].closed
                            /\ id \notin DOMAIN subs'
             /\ chans[id].closed /\ chans[id].buf = <<>> /\ call'[c] # call[c] =>
                   EndsInErrClosed(call'[c])]_vars

\* With timeout 0 a call has returned ErrClosed because its channel was closed.
C7_Witness ==
    \E c \in Callers :
        /\ client.timeout = 0
        /\ hist[c].why = "closed" /\ Returned(c)
        /\ call[c].result.kind = "ErrClosed"

\* C8: when Download or Upload has returned, however it ended, the Mux
\* subscriber set holds no subscription the call created.
C8_SubscriptionsScopedToCall ==
    \A c \in Callers : Returned(c) => hist[c].created \cap DOMAIN subs = {}

\* A call with three subscriptions or more has returned successfully while the
\* Mux is running.
C8_Witness ==
    \E c \in Callers :
        /\ Returned(c) /\ call[c].result.kind = "nil"
        /\ Cardinality(hist[c].created) >= 3
        /\ closer = "idle" /\ reader \notin {"failed", "exited"}

\* A segment response of the call's kind (SCS=1 for Download, SCS=0 for Upload).
IsSegmentResponseOf(f, cr) == Spec3(f) = (IF cr.op = "Download" THEN 1 ELSE 0)
InSegmentPhase(c) == call[c].phase \in {"seg", "upseg"}

\* C9: in the segment phase a response whose toggle differs from the toggle
\* of the request it would answer is never queued for the call nor taken by
\* it: the queue of the current request holds only aborts and segment
\* responses with the request's toggle, every segment response the call took
\* carries the toggle of the request sent before it, and so does each one of
\* a call that succeeds.
C9_WrongToggleNeverAccepted ==
    \A c \in Callers : InSegmentPhase(c) =>
        LET cr == call[c]
            log == hist[c].sentLog
            rcv == hist[c].rcvLog
            buf == IF cr.chSeg \in DOMAIN chans THEN chans[cr.chSeg].buf ELSE <<>>
        IN /\ \A i \in 1..Len(buf) :
                 \/ Spec3(buf[i]) = 4
                 \/ IsSegmentResponseOf(buf[i], cr) /\ Bit(buf[i].Data[1], 4) = cr.toggle
           /\ \A j \in 2..Len(rcv) :
                 \/ Spec3(rcv[j]) = 4
                 \/ /\ j <= Len(log)
                    /\ IsSegmentResponseOf(rcv[j], cr)
                    /\ Bit(rcv[j].Data[1], 4) = Bit(log[j].Data[1], 4)
           /\ Succeeded(c) =>
                 \A j \in 2..Len(log) :
                     /\ IsSegmentResponseOf(rcv[j], cr)
                     /\ Bit(rcv[j].Data[1], 4) = (j - 2) % 2

\* Only a wrong-toggle response arrived for the first segment, and the call
\* returned ErrClosed after the timeout.
C9_Witness ==
    \E c \in Callers :
        /\ hist[c].wrongToggle /\ InSegmentPhase(c) /\ Returned(c)
        /\ hist[c].why = "timeout" /\ call[c].result.kind = "ErrClosed"
        /\ Len(hist[c].rcvLog) = 1

\* C10: at most one request of a client is outstanding at any time, also
\* when Download and Upload are called from several goroutines: no two calls
\* of the client wait for a response at the same time.
C10_AtMostOneOutstanding ==
    Cardinality({c \in Callers : Waiting(c)}) <= 1

\* What a filter accepts, read off the subscription: nil accepts every frame,
\* ByID(id) the frames with that identifier.
FilterAccepts(flt, f) == flt.kind = "nil" \/ (flt.kind = "ByID" /\ f.ID = flt.index)
\* The subscriber can take a frame without the reader waiting: room in the
\* buffer, or a consumer blocked in its receive on an unbuffered queue.
CanTake(id) ==
    \/ Len(chans[id].buf) < chans[id].cap
    \/ chans[id].cap = 0 /\ id \in mx.waiting
\* The reader has received a frame in this step, and the frame.
ReaderReceived == Len(mx.rlog') = Len(mx.rlog) + 1
LastReceived == mx.rlog'[Len(mx.rlog')]
\* The frame went to subscriber id in this step, once: appended to its buffer
\* or handed to its blocked consumer.
DeliveredOnce(id, f) ==
    \/ /\ chans'[id].buf = Append(chans[id].buf, f)
       /\ mx.got'[id] = mx.got[id]
    \/ /\ chans'[id].buf = chans[id].buf
       /\ Len(mx.got'[id]) = Len(mx.got[id]) + 1
       /\ mx.got'[id][Len(mx.got'[id])].f = f
       /\ SubSeq(mx.got'[id], 1, Len(mx.got[id])) = mx.got[id]
NotDelivered(id) == chans'[id].buf = chans[id].buf /\ mx.got'[id] = mx.got[id]

\* C11: every frame the reader receives goes, once, to exactly the current
\* subscribers whose filter accepts it (a nil filter accepts all) and whose
\* queue can take it; for every other subscriber nothing changes, so a frame
\* nobody accepts is dropped, and a full queue loses the frame for its
\* subscriber alone.
C11_FanOut ==
    [][ReaderReceived =>
          \A id \in DOMAIN chans :
              IF id \in DOMAIN subs /\ FilterAccepts(subs[id].filter, LastReceived) /\ CanTake(id)
              THEN DeliveredOnce(id, LastReceived)
              ELSE NotDelivered(id)]_vars

\* The second frame was accepted by two subscribers; the one with a full
\* queue lost it, the other has it.
C11_Witness ==
    /\ Len(mx.rlog) = 2
    /\ \E a, b \in DOMAIN subs :
          /\ FilterAccepts(subs[a].filter, mx.rlog[2])
          /\ FilterAccepts(subs[b].filter, mx.rlog[2])
          /\ chans[a].cap = 1 /\ mx.qpos[a] = <<1>> /\ mx.got[a] = <<>>
          /\ mx.qpos[b] = <<2>>

\* The stream positions a subscriber has dequeued, then those still queued.
Positions(id) == [i \in 1..Len(mx.got[id]) |-> mx.got[id][i].pos] \o mx.qpos[id]
StrictlyIncreasing(s) == \A i \in 1..(Len(s) - 1) : s[i] < s[i + 1]

\* C12: the frames a subscriber dequeues are, in order and without
\* duplicates, frames of the stream the reader received that its filter
\* accepts: each dequeued frame is the frame at its position of the stream,
\* the positions dequeued and then queued increase strictly, and the filter
\* accepts every one of them.
C12_SubscriberOrder ==
    \A id \in DOMAIN subs :
        /\ StrictlyIncreasing(Positions(id))
        /\ \A i \in 1..Len(mx.got[id]) :
              /\ mx.got[id][i].pos \in 1..Len(mx.rlog)
              /\ mx.got[id][i].f = mx.rlog[mx.got[id][i].pos]
              /\ FilterAccepts(subs[id].filter, mx.got[id][i].f)
        /\ Len(chans[id].buf) = Len(mx.qpos[id])
        /\ \A i \in 1..Len(mx.qpos[id]) :
              /\ mx.qpos[id][i] \in 1..Len(mx.rlog)
              /\ chans[id].buf[i] = mx.rlog[mx.qpos[id][i]]

\* A subscriber with two frames queued has dequeued both, two different frames.
C12_Witness ==
    \E id \in DOMAIN subs :
        /\ chans[id].cap = 2
        /\ Len(mx.got[id]) = 2
        /\ mx.got[id][1].f # mx.got[id][2].f
        /\ mx.got[id][1].pos = 1


\* Nothing is put into the queue of id in this step: its buffer does not grow
\* and its consumer is handed nothing.
NothingEnqueued(id) ==
    /\ Len(chans'[id].buf) <= Len(chans[id].buf)
    /\ Len(mx.got'[id]) + Len(chans'[id].buf) = Len(mx.got[id]) + Len(chans[id].buf)

\* C13: cancel removes the subscription from the Mux and closes its queue; a
\* subscription is registered exactly while its queue is open, so the close in
\* cancel, in Close and in the reader's error path never meets a closed queue;
\* once the queue is closed (by cancel, Close or reader termination) nothing
\* is enqueued into it and a further cancel leaves it closed and unregistered.
C13_Cancel ==
    [][\A id \in DOMAIN chans :
          /\ (id \in DOMAIN subs) = ~chans[id].closed
          /\ MuxCancel(id) =>
                /\ id \notin DOMAIN subs'
                /\ chans'[id].closed
                /\ \A other \in DOMAIN chans \ {id} :
                      chans'[other] = chans[other] /\ (other \in DOMAIN subs') = (other \in DOMAIN subs)
          /\ chans[id].closed =>
                /\ chans'[id].closed
                /\ id \notin DOMAIN subs'
                /\ NothingEnqueued(id)]_vars

\* A subscription was cancelled while the Mux was running, the reader has
\* received a frame since, and another subscriber has got that frame.
C13_Witness ==
    /\ closer = "idle" /\ reader # "failed"
    /\ Len(mx.rlog) = 1
    /\ \E id, other \in DOMAIN chans :
          /\ id \notin DOMAIN subs /\ chans[id].closed
          /\ chans[id].buf = <<>> /\ mx.got[id] = <<>>
          /\ other \in DOMAIN subs /\ chans[other].buf = mx.rlog


\* Close has returned and the reader goroutine has ended: no step of the Mux
\* is left that could close a queue.
MuxShutDown == closer = "closed" /\ reader \in {"exited", "failed"}

\* C14: once the Mux has been closed or its reader has terminated, the queue
\* of every subscription is closed, whenever the subscription was created.
C14_QueuesClosedAfterShutdown ==
    MuxShutDown => \A id \in DOMAIN chans : chans[id].closed


\* C15: after Close has been called the reader task eventually terminates.
C15_CloseStopsReader == (closer # "idle") ~> (reader \in {"exited", "failed"})


\* The reader's call of Receive returns in this step without a frame.
ReceiveFailed == reader = "recv" /\ reader' # "recv" /\ mx.rlog' = mx.rlog

\* C16: when receive on the Mux's Bus returns an error, the Mux closes every
\* subscriber queue and empties the subscriber set, and the reader has exited:
\* it receives and dispatches no frame from then on.
C16_ReceiveErrorShutsDown ==
    [][/\ ReceiveFailed =>
             /\ reader' = "failed"
             /\ subs' = NoSubs
             /\ \A id \in DOMAIN chans :
                   /\ chans'[id].buf = chans[id].buf
                   /\ chans'[id].closed = (chans[id].closed \/ id \in DOMAIN subs)
       /\ reader = "failed" =>
             /\ reader' = "failed"
             /\ mx.rlog' = mx.rlog
             /\ \A id \in DOMAIN chans : NothingEnqueued(id)]_vars

\* The reader ended on a receive error after it had dispatched a frame, with
\* Close never called: both subscriptions are closed, one with the frame still
\* in its queue, and one consumer that was blocked has been released.
C16_Witness ==
    /\ reader = "failed" /\ closer = "idle"
    /\ Len(mx.rlog) = 1
    /\ subs = NoSubs
    /\ mx.waiting = {}
    /\ \E a, b \in DOMAIN chans :
          /\ chans[a].closed /\ chans[a].buf = mx.rlog
          /\ chans[b].closed /\ chans[b].cap = 0


\* How many times frame f is in sequence s.
RECURSIVE Count(_, _)
Count(s, f) == IF s = <<>> THEN 0 ELSE (IF Head(s) = f THEN 1 ELSE 0) + Count(Tail(s), f)
\* The copies of f endpoint t has received or has in its queue.
Copies(t, f) == Count(lb.eps[t].got, f) + Count(lb.eps[t].ch.buf, f)
SendSucceeded == lb.snd.pc = "returned" /\ lb.snd.res = "nil"

\* C17: after a successful Send of a valid frame from endpoint A, every other
\* endpoint that was registered on the bus when the Send took its targets and
\* is still open has the frame exactly once; no endpoint has it twice; A does
\* not have it; an endpoint closed before the Send started, or not a target,
\* does not have it.
C17_LoopbackDelivery ==
    SendSucceeded =>
        /\ Validate(lb.snd.frame) = "nil"
        /\ \A t \in Opened :
              LET n == Copies(t, lb.snd.frame)
              IN /\ n <= 1
                 /\ t = lb.snd.ep => n = 0
                 /\ t \in lb.snd.deadAtStart => n = 0
                 /\ t \notin lb.snd.snap => n = 0
                 /\ (t \in lb.snd.snap /\ ~lb.eps[t].dead) => n = 1

\* The second Send has succeeded with two other endpoints open, which have
\* both received its frame.
C17_Witness ==
    /\ SendSucceeded
    /\ lb.nsent = 2
    /\ Cardinality(lb.snd.snap) = 2
    /\ \A t \in lb.snd.snap : Count(lb.eps[t].got, lb.snd.frame) = 1 /\ ~lb.eps[t].dead


\* Send is called in this step, with a valid frame, on endpoint e.
SendCalledOn(e) ==
    /\ lb.nsent' = lb.nsent + 1
    /\ lb.snd'.ep = e
    /\ Validate(lb.snd'.frame) = "nil"

\* C18: once an endpoint has been closed, directly or with its bus, a Receive
\* on it returns no frame, whatever was queued when it was closed, and a Send
\* on it returns ErrClosed.
C18_ClosedEndpointFails ==
    [][\A e \in Opened :
          lb.eps[e].dead =>
              /\ lb.eps'[e].got = lb.eps[e].got
              /\ SendCalledOn(e) => (lb.snd'.pc = "returned" /\ lb.snd'.res = "ErrClosed")]_vars

\* C19: no call of LoopbackBus.Close or of an endpoint's Close faults, in any
\* order of these calls on the bus and its endpoints.
C19_CloseIdempotent == lb.panic # "close of closed channel"

\* C20: a Send whose target is closed after the targets were taken does not
\* fault.
C20_ClosedTargetSkipped == lb.snd.pc # "panicked"


\* Send is called in this step, on any endpoint, with a frame Validate rejects.
InvalidSendCalled == lb.nsent' = lb.nsent + 1 /\ Validate(lb.snd'.frame) # "nil"

\* C21: a Send of a frame with len > 8 or an identifier out of range returns
\* the validation error at once, whatever the state of the bus and of the
\* endpoints, and changes nothing else: every queue, every endpoint and the
\* registrations are as they were before the call.
C21_SendValidatesFirst ==
    [][InvalidSendCalled =>
             /\ lb.snd'.pc = "returned"
             /\ lb.snd'.res = Validate(lb.snd'.frame)
             /\ lb.snd'.res \in {"ErrInvalidLen", "ErrInvalidID"}
             /\ lb.eps' = lb.eps
             /\ lb.endpoints' = lb.endpoints
             /\ lb.closed' = lb.closed
             /\ lb.panic' = lb.panic]_vars

\* Send has returned the identifier error on an endpoint that had been closed
\* with its bus, while another endpoint still has a frame queued.
C21_Witness ==
    /\ lb.snd.pc = "returned" /\ lb.snd.res = "ErrInvalidID"
    /\ lb.closed
    /\ lb.snd.ep \in lb.snd.deadAtStart
    /\ \E t \in Opened : lb.eps[t].ch.buf # <<>>


\* Endpoint e is closed in this step, and the bus is closed in this step.
EndpointCloses(e) == ~lb.eps[e].dead /\ lb.eps'[e].dead
BusCloses == ~lb.closed /\ lb.closed'

\* C22: the registered endpoints are open; a Close of one endpoint takes that
\* endpoint alone off the bus and leaves every other endpoint as it was, its
\* registration, its open queue and the frames in it; a Close of the bus
\* closes every endpoint that was registered and leaves none registered.
C22_CloseDeregistersOne ==
    [][/\ \A e \in lb.endpoints : ~lb.eps[e].dead /\ ~lb.eps[e].ch.closed
       /\ \A e \in Opened :
             (EndpointCloses(e) /\ ~BusCloses) =>
                 /\ lb.endpoints' = lb.endpoints \ {e}
                 /\ \A other \in Opened \ {e} : lb.eps'[other] = lb.eps[other]
       /\ BusCloses =>
             /\ lb.endpoints' = {}
             /\ \A e \in lb.endpoints :
                   /\ lb.eps'[e].dead /\ lb.eps'[e].ch.closed /\ lb.eps'[e].closed
                   /\ lb.eps'[e].ch.buf = lb.eps[e].ch.buf
                   /\ lb.eps'[e].got = lb.eps[e].got]_vars

\* One endpoint was closed before the second Send was called; the bus is open,
\* and the endpoint that is still registered has received that Send's frame
\* after the frame of the first one.
C22_Witness ==
    /\ SendSucceeded
    /\ ~lb.closed
    /\ lb.snd.deadAtStart # {}
    /\ \E t \in lb.endpoints :
          /\ Len(lb.eps[t].got) = 2
          /\ lb.eps[t].got[2] = lb.snd.frame


\* f is an expedited upload-initiate response (SCS=2, e=1) of the client's
\* node for the object the call addresses.
IsExpeditedUploadResponseFor(f, cr) ==
    /\ f.ID = 1408 + client.node /\ f.Len = 8 /\ Spec3(f) = 2
    /\ Bit(f.Data[1], 3) = 1
    /\ f.Data[2] + 256 * f.Data[3] = cr.index /\ f.Data[4] = cr.subindex
\* The first 4-n bytes of bytes 4..7 of f, n in bits 1..0 of the command byte.
ExpeditedBytes(f) == SubSeq(f.Data, 5, 8 - (f.Data[1] % 4))

\* C23: an Upload whose first response is an expedited upload-initiate
\* response for its object sends no segment request and returns the first
\* 4-n bytes of bytes 4..7 of that response, with the s bit set or not.
C23_ExpeditedUpload ==
    \A c \in Callers :
        LET cr == call[c]
            rcv == hist[c].rcvLog
        IN (cr.op = "Upload" /\ rcv # <<>> /\ IsExpeditedUploadResponseFor(rcv[1], cr)) =>
              /\ Len(hist[c].sentLog) = 1
              /\ Returned(c) =>
                    /\ cr.result.kind = "nil"
                    /\ cr.result.data = ExpeditedBytes(rcv[1])


\* The command byte of an expedited download request carrying len bytes:
\* 0x2C, 0x2D, 0x2E, 0x2F for len 4, 3, 2, 1 in the spec-pure encoding and
\* 0x23, 0x27, 0x2B, 0x2F in the legacy one.
ExpectedDownloadCmd(mode, len) ==
    IF mode = "ExpeditedModeClassic"
    THEN (CASE len = 4 -> 35 [] len = 3 -> 39 [] len = 2 -> 43 [] OTHER -> 47)
    ELSE (CASE len = 4 -> 44 [] len = 3 -> 45 [] len = 2 -> 46 [] OTHER -> 47)
\* f is the expedited download request for the call's object and payload.
IsExpeditedDownloadRequest(f, cr) ==
    /\ f.ID = 1536 + client.node /\ f.Len = 8
    /\ f.Data[1] = ExpectedDownloadCmd(client.expeditedMode, Len(cr.data))
    /\ f.Data[2] + 256 * f.Data[3] = cr.index /\ f.Data[4] = cr.subindex
    /\ \A i \in 1..4 : f.Data[4 + i] = (IF i <= Len(cr.data) THEN cr.data[i] ELSE 0)
IsExpeditedDownload(c) == call[c].op = "Download" /\ Len(call[c].data) \in 1..4

\* C24: a Download of 1 to 4 bytes sends one request frame and no other: id
\* 0x600+node, len 8, the command byte of the encoding the client was
\* constructed with, index and subindex, the payload from byte 4 and zeros
\* after it; the first response it takes is a download-initiate response
\* (SCS=3) or an abort for the same index/subindex, and on the download-initiate
\* response it succeeds.
C24_ExpeditedDownload ==
    \A c \in Callers : IsExpeditedDownload(c) =>
        LET cr == call[c]
            log == hist[c].sentLog
            rcv == hist[c].rcvLog
        IN /\ Len(log) <= 1
           /\ log # <<>> => IsExpeditedDownloadRequest(log[1], cr)
           /\ Len(rcv) <= Len(log)
           /\ (rcv # <<>> /\ Spec3(rcv[1]) = 3) =>
                 /\ IsDownloadInitiateAckFor(rcv[1], cr)
                 /\ cr.pc \in {"unwind", "done"}
                 /\ cr.result.kind = "nil"
           /\ Succeeded(c) => (Len(rcv) = 1 /\ Spec3(rcv[1]) = 3)

\* A client constructed in legacy mode has written 3 bytes.
C24_Witness ==
    /\ client.expeditedMode = ExpeditedModeClassic
    /\ \E c \in Callers :
          /\ IsExpeditedDownload(c) /\ Len(call[c].data) = 3
          /\ Returned(c) /\ Succeeded(c)
          /\ hist[c].sentLog[1].Data[1] = 39


\* f is an expedited upload response of the client's node for the call's
\* object that carries k bytes, in the layout with e in bit 3, s in bit 2 and
\* n in bits 1..0, or in the legacy layout with n in bits 3..2, e in bit 1 and
\* s in bit 0.
IsUploadResponseFor(f, cr) ==
    /\ f.ID = 1408 + client.node /\ f.Len = 8 /\ Spec3(f) = 2
    /\ f.Data[2] + 256 * f.Data[3] = cr.index /\ f.Data[4] = cr.subindex
CarriesSpecPure(f, k) == f.Data[1] = 64 + 8 + 4 + (4 - k)
CarriesLegacy(f, k) == f.Data[1] = 64 + 4 * (4 - k) + 2 + 1

\* C25: an Upload whose first response is an expedited upload response for
\* its object carrying k bytes, in either layout of the command byte, returns
\* those k bytes.
C25_UploadAcceptsBothEncodings ==
    \A c \in Callers :
        LET cr == call[c]
            rcv == hist[c].rcvLog
        IN (cr.op = "Upload" /\ rcv # <<>> /\ IsUploadResponseFor(rcv[1], cr)) =>
              \A k \in 1..4 :
                  (CarriesSpecPure(rcv[1], k) \/ CarriesLegacy(rcv[1], k)) =>
                      /\ Len(hist[c].sentLog) = 1
                      /\ Returned(c) =>
                            /\ cr.result.kind = "nil"
                            /\ cr.result.data = SubSeq(rcv[1].Data, 5, 4 + k)


\* C26: a valid frame survives MarshalBinary followed by UnmarshalBinary of
\* the 16 bytes: decoding succeeds and gives back the identifier, both
\* flags, the length and all eight data bytes.
RoundTripOf(f) ==
    /\ io.op = "UnmarshalBinary"
    /\ io.arg.f = f
    /\ Len(io.arg.data) = 16
C26_CodecRoundTrip ==
    \A f \in CodecFrames :
        (Validate(f) = "nil" /\ RoundTripOf(f)) =>
            /\ io.res.err = "nil"
            /\ io.res.f.ID = f.ID
            /\ io.res.f.Extended = f.Extended
            /\ io.res.f.RTR = f.RTR
            /\ io.res.f.Len = f.Len
            /\ io.res.f.Data = f.Data
C26_Witness ==
    /\ io.op = "UnmarshalBinary"
    /\ Len(io.arg.data) = 16
    /\ io.arg.f.ID = 448585471
    /\ io.arg.f.Extended
    /\ io.arg.f.RTR
    /\ io.arg.f.Len = 8
    /\ io.arg.f.Data[8] = 128
    /\ io.res.f = io.arg.f

\* C27: Validate rejects a frame exactly when its length exceeds 8 or its
\* identifier exceeds 11 bits (standard) or 29 bits (extended), and
\* MarshalBinary fails for exactly the frames Validate rejects.
Invalid(f) ==
    \/ f.Len > 8
    \/ ~f.Extended /\ f.ID > 2047
    \/ f.Extended /\ f.ID > 536870911
C27_ValidateExactly ==
    /\ io.op = "Validate" => ((io.res # "nil") <=> Invalid(io.arg))
    /\ io.op = "MarshalBinary" => ((io.res.err # "nil") <=> Invalid(io.arg))
C27_Witness ==
    /\ io.op = "MarshalBinary"
    /\ io.arg.Extended
    /\ io.arg.ID = 536870912
    /\ io.arg.Len = 8
    /\ io.res.err = "ErrInvalidID"


\* C28: for each of the twelve per-node function codes and each node id
\* 1..127, COBID gives an identifier of at most 0x7FF and ParseCOBID of it
\* succeeds and returns exactly that function code and node id.
PerNodeFCs ==
    {FC_TPDO1, FC_TPDO2, FC_TPDO3, FC_TPDO4, FC_RPDO1, FC_RPDO2, FC_RPDO3, FC_RPDO4,
     FC_SDO_RX, FC_SDO_TX, FC_NMT_ERRCTRL, FC_EMCY}
C28_COBIDRoundTrip ==
    /\ (io.op = "COBID" /\ io.arg.fc \in PerNodeFCs /\ io.arg.node \in 1..127) =>
           io.res <= 2047
    /\ (io.op = "ParseCOBID" /\ io.arg.fc \in PerNodeFCs /\ io.arg.node \in 1..127) =>
           /\ io.arg.id <= 2047
           /\ io.res.ok
           /\ io.res.fc = io.arg.fc
           /\ io.res.node = io.arg.node
C28_Witness ==
    /\ io.op = "ParseCOBID"
    /\ io.arg.fc = FC_EMCY
    /\ io.arg.node = 127
    /\ io.arg.id = 255
    /\ io.res = [ok |-> TRUE, fc |-> FC_EMCY, node |-> 127]

\* C29: SYNC.UnmarshalCANFrame succeeds exactly for a frame with id 0x080
\* and length 0 or 1; every other id, the EMCY ids 0x081..0x0FF among them,
\* and every length above 1 is an error.
C29_SyncOnlyAt080 ==
    io.op = "SYNC.UnmarshalCANFrame" =>
        ((io.res.err = "nil") <=> (io.arg.ID = 128 /\ io.arg.Len \in {0, 1}))


\* C30: once the subscription behind the channel SubscribeHeartbeats returned
\* has ended, by its cancel function or by the Mux closing, the returned
\* channel is eventually closed, whether or not the consumer goes on reading.
HeartbeatsEnded ==
    /\ hb.pc \notin {"none", "panicked"}
    /\ chans[hb.sub].closed
C30_HeartbeatChannelCloses == HeartbeatsEnded ~> hb.out.closed


\* C31: however often Start is called, at most one writer goroutine runs, at
\* most one SYNC frame is sent in an interval, and with the counter enabled
\* the counter bytes on the bus are 0, 1, 2, ... modulo 128 in that order.
WritersRunning == {i \in DOMAIN sw.runs : sw.runs[i].pc = "loop"}
C31_StartOnce ==
    /\ Cardinality(WritersRunning) <= 1
    /\ \A i, j \in DOMAIN sw.log : i # j => sw.log[i].at # sw.log[j].at
    /\ sw.withCounter => \A i \in DOMAIN sw.log : sw.log[i].f.Data[1] = (i - 1) % 128


\* C32: in every phase of Download and Upload the subscription for the
\* response is registered before the request is sent: from the moment the
\* call is about to send until it has taken the response, its channel exists
\* with the filter of the phase, registered with the Mux unless the Mux has
\* shut down and closed it; so the reader's fan-out finds it for every frame
\* received after the request.
RequestOut(c) == call[c].pc \in {"send", "wait"}
PhaseFilter(c) ==
    Filter(call[c].phase, client.node, call[c].index, call[c].subindex, call[c].toggle)
C32_SubscribedBeforeSend ==
    \A c \in Callers :
        RequestOut(c) =>
            LET id == WaitChan(call[c])
            IN /\ id \in DOMAIN chans
               /\ chans[id].cap = BufferOf(call[c].phase)
               /\ \/ id \in DOMAIN subs /\ subs[id].filter = PhaseFilter(c)
                  \/ chans[id].closed
\* A segment of an upload has been requested and its response, received after
\* the request, is in the queue of the segment subscription.
C32_Witness ==
    /\ call[MainCaller].pc = "wait"
    /\ call[MainCaller].phase = "upseg"
    /\ call[MainCaller].toggle = 1
    /\ chans[call[MainCaller].chSeg].buf # <<>>
    /\ call[MainCaller].chSeg \in DOMAIN subs


\* C33: the reader is never held up by subscribers: whenever it is in
\* Receive and the bus has a frame for it, the receive-and-dispatch step can
\* be taken, whatever the queues hold and whether or not any consumer is
\* waiting, and it puts the reader back at the top of its loop.
SomeQueueStuck ==
    \E id \in DOMAIN subs : ~HasRoom(id) /\ id \notin mx.waiting
C33_ReaderNeverBlocked ==
    (reader = "recv" /\ nrecv < MaxRecvFan) => ENABLED MuxReceiveFan
\* The reader is in Receive for its second frame while one subscriber's queue
\* is full and another, unbuffered, has nobody waiting on it.
C33_Witness ==
    /\ reader = "recv"
    /\ nrecv = 1
    /\ \E id \in DOMAIN subs : chans[id].cap > 0 /\ ~HasRoom(id)
    /\ \E id \in DOMAIN subs : chans[id].cap = 0 /\ id \notin mx.waiting


\* C34: a Send that has reached a target whose queue is full and which is
\* open cannot go on: it waits for room or for the target to close.  It does
\* not drop the frame for a target that stays open, and while it waits the
\* targets after it in the snapshot have not been given the frame.
Delivering == lb.snd.pc = "deliver"
CurrentTarget == Head(lb.snd.targets)
TargetFull(t) == ~lb.eps[t].closed /\ Len(lb.eps[t].ch.buf) >= QueueCap
C34_SendBlocksOnFullQueue ==
    /\ (Delivering /\ TargetFull(CurrentTarget)) => ~ENABLED loopEndpointSendDeliver
    /\ Delivering =>
          \A i \in 2..Len(lb.snd.targets) : Copies(lb.snd.targets[i], lb.snd.frame) = 0
    /\ SendSucceeded =>
          \A t \in lb.snd.snap : ~lb.eps[t].closed => Copies(t, lb.snd.frame) = 1
\* The second Send waits at an open target whose queue still holds the first
\* frame, with another target behind it in the snapshot.
C34_Witness ==
    /\ Delivering
    /\ TargetFull(CurrentTarget)
    /\ Len(lb.snd.targets) = 2
    /\ lb.nsent = 2
    /\ Copies(CurrentTarget, lb.snd.frame) = 0


\* Fields of a download-initiate command byte in the client's encoding.
CmdOf(cr) == cr.req.Data[1]
FieldN(cmd) ==
    IF client.expeditedMode = ExpeditedModeClassic THEN (cmd \div 4) % 4 ELSE cmd % 4
FieldE(cmd) ==
    IF client.expeditedMode = ExpeditedModeClassic THEN (cmd \div 2) % 2 ELSE (cmd \div 8) % 2
FieldS(cmd) ==
    IF client.expeditedMode = ExpeditedModeClassic THEN cmd % 2 ELSE (cmd \div 4) % 2

\* C35: for every payload of 0..4 bytes, the empty one included, Download
\* builds an expedited initiate request with e = 1, s = 1 and n = 4 - len in
\* the client's encoding, and the command byte differs from that of every
\* payload of another length.
C35_ExpeditedLengthField ==
    io.op = "Download" =>
        /\ io.res.pc = "sub"
        /\ io.res.phase = "exp"
        /\ FieldE(CmdOf(io.res)) = 1
        /\ FieldS(CmdOf(io.res)) = 1
        /\ FieldN(CmdOf(io.res)) = 4 - Len(io.arg)
        /\ \A L \in ShortLens \ {Len(io.arg)} :
              LET other == DownloadStart(IdleCall, 8192, 1, Payload(L))
              IN other.pc = "sub" => CmdOf(other) # CmdOf(io.res)


\* The call's own subscriptions, and a step of a call that has timed out.
OwnSubs(c) == {call[c].ch, call[c].chSeg}
TimeoutStepOf(c) ==
    /\ hist'[c].why = "timeout"
    /\ hist[c].why # "timeout" \/ call'[c] # call[c]

\* C36: the ErrClosed of a timed-out call does not propagate.  The step in
\* which the timer fires and every later step of that call (cancelSeg, the
\* deferred cancel) leave the Mux's stop signal and its reader as they are and
\* leave every subscription other than the call's own registered and open,
\* with its queue untouched.
C36_TimeoutStaysLocal ==
    [][\A c \in Callers : TimeoutStepOf(c) =>
            /\ stop' = stop
            /\ reader' = reader
            /\ closer' = closer
            /\ \A id \in DOMAIN subs \ OwnSubs(c) :
                  /\ id \in DOMAIN subs' /\ subs'[id] = subs[id]
                  /\ id \in DOMAIN chans' /\ chans'[id] = chans[id]]_vars

\* One call has returned ErrClosed by timeout; the other call waits on its
\* subscription, registered and open, the Mux runs, and its reader can
\* receive and dispatch the next frame.
C36_Witness ==
    \E c, d \in Callers :
        /\ c # d
        /\ hist[c].why = "timeout" /\ call[c].pc = "done"
        /\ call[c].result.kind = "ErrClosed"
        /\ call[d].pc = "wait"
        /\ call[d].ch \in DOMAIN subs
        /\ ~chans[call[d].ch].closed
        /\ ~stop /\ reader = "recv"
        /\ ENABLED ReaderReceiveTmo


\* C37: under every interleaving of Close calls from several tasks, cancel
\* calls and the reader's termination on a Bus error, the stop signal is
\* closed at most once, no close panics, and a queue that is closed is no
\* longer registered (so that no later cancel, Close or reader exit closes it
\* again).
C37_ClosedAtMostOnce ==
    /\ mc.closes <= 1
    /\ mc.panic = "none"
    /\ \A id \in DOMAIN subs : ~chans[id].closed


\* A queue or its consumer gets a frame in this step; a queue is closed in it.
GivenFrame(id) ==
    Len(mx.got'[id]) + Len(chans'[id].buf) > Len(mx.got[id]) + Len(chans[id].buf)
ClosedInStep(id) == chans'[id].closed /\ ~chans[id].closed

\* C38: the reader never enqueues into a closed queue.  A step that gives a
\* frame to a queue finds it open and registered and closes or unregisters
\* nothing (dispatch excludes closure); a step that closes a queue takes it
\* out of the subscriber set in the same step and gives no frame to any queue.
C38_NoEnqueueIntoClosed ==
    [][\A id \in DOMAIN chans :
          /\ GivenFrame(id) =>
                /\ ~chans[id].closed /\ ~chans'[id].closed
                /\ id \in DOMAIN subs
                /\ subs' = subs
                /\ \A other \in DOMAIN chans : ~ClosedInStep(other)
          /\ ClosedInStep(id) =>
                /\ id \in DOMAIN subs /\ id \notin DOMAIN subs'
                /\ \A other \in DOMAIN chans : ~GivenFrame(other)]_vars

\* The reader has dispatched a frame with identifier 0x100, which every filter
\* accepts, after one subscription with a one-frame queue had been cancelled:
\* the closed queue is empty and its consumer got nothing, the other
\* subscription holds the frame.
C38_Witness ==
    /\ mx.rlog = <<MuxFrame(256)>>
    /\ reader = "top" /\ ~stop
    /\ \E id, other \in DOMAIN chans :
          /\ chans[id].closed /\ id \notin DOMAIN subs
          /\ chans[id].cap = 1 /\ chans[id].buf = <<>> /\ mx.got[id] = <<>>
          /\ other \in DOMAIN subs /\ chans[other].buf = <<MuxFrame(256)>>


\* The endpoint Open returns on a closed bus (closed set, dead unset), and
\* what is expected of a closed endpoint.
LateOpened(e) == lb.eps[e].closed /\ ~lb.eps[e].dead
LateNotRegistered(e) == e \notin lb.endpoints
LateSendFails(e) ==
    (lb.snd.pc = "returned" /\ lb.snd.ep = e /\ Validate(lb.snd.frame) = "nil")
        => lb.snd.res = "ErrClosed"
LateReceiveReturns(e) == Running => ENABLED loopEndpointReceive(e)
LateCloseHarmless(e) == closeNoLock(lb, e).panic = "none"

\* C39: an endpoint that Open returned after the bus was closed behaves as a
\* closed endpoint: it is not registered, a Send on it returns ErrClosed, its
\* Receive returns (ErrClosed) instead of blocking, and Close on it returns
\* without a fault.
C39_LateEndpointIsClosed ==
    \A e \in Opened : LateOpened(e) =>
        /\ LateNotRegistered(e)
        /\ LateSendFails(e)
        /\ LateReceiveReturns(e)
        /\ LateCloseHarmless(e)


\* C40: a call completes successfully only on responses the server sent in
\* reply to the call's own requests: no call returns nil after taking a
\* frame that reached its queue before its own request was sent and after an
\* earlier call of the client for the same object had timed out.
C40_OnlyOwnReplies ==
    \A c \in Callers :
        (call[c].pc = "done" /\ call[c].result.kind = "nil") => ~hist[c].stale
====
